---- MODULE Spec2Model ----
(***************************************************************************)
(* Ghostwriter: event buffering and signal-gated insight pipeline.         *)
(*                                                                         *)
(* The module holds several state machines over one set of variables:      *)
(*   SpecRate       the Gemini rate limiter (llm/rateLimiter.js)           *)
(*   SpecDaily      the rate limiter over a run that spends the daily      *)
(*                  quota before midnight                                  *)
(*   SpecParse      the worthiness parsers of the Gemini client            *)
(*   SpecNotify     the legacy pipeline: conversation state, compression,  *)
(*                  insight detection and notify, handlers overlapping     *)
(*   SpecPipeline   either pipeline, with a database that may fail         *)
(*   SpecNotifier   notify called by itself, calls overlapping             *)
(*   SpecBufferSeq  the HybridBufferAnalyzer (window, triggers, AI         *)
(*                  pipeline) with handlers that run one at a time         *)
(*   SpecBufferFair the same, with an event loop that keeps running        *)
(*   SpecBuffer     the HybridBufferAnalyzer on Redis, handlers            *)
(*                  overlapping                                            *)
(*   SpecStore      the HybridBufferAnalyzer on a Redis whose commands may *)
(*                  fail, handlers one at a time                           *)
(*   SpecShutdown   the analyzer in a process that receives SIGTERM/SIGINT *)
(*   SpecGate       the SignalGate rules on conversation snapshots         *)
(*   SpecRequest    GeminiClient.makeRequest: rate limiter, model call,    *)
(*                  retries and backoff                                    *)
(*   SpecText       extractJSON and the worthiness parsers on the          *)
(*                  characters of a response                               *)
(*   SpecIngest     processMessage and updateConversationState on the full *)
(*                  row, handlers overlapping                              *)
(*   SpecCompress   compressConversation and emergencyCompress, one call   *)
(*                  at a time                                              *)
(*   SpecEvents     handleMessage: message events, of users and of bots,   *)
(*                  routed to the analyzer or to the ConversationManager   *)
(*   SpecRepository the legacy pipeline with ConversationRepository.delete *)
(*   SpecAnalyzer   the analyzer with HybridBufferAnalyzer.shutdown()      *)
(* delete and shutdown() are exported operations that no code path of the  *)
(* program calls: they run in these last two specifications only.         *)
(* Each specification moves its own variables and leaves the others at     *)
(* their initial values.                                                   *)
(***************************************************************************)
EXTENDS Integers, Sequences, FiniteSets, TLC

VARIABLES
    now,                \* Date.now(), in milliseconds
    \* ---- RateLimiter (one instance, owned by the GeminiClient singleton)
    requestTimestamps,  \* this.requestTimestamps: sequence of ms timestamps
    dailyCount,         \* this.dailyCount
    dailyResetTime,     \* this.dailyResetTime
    granted,            \* history: <<time, caller>> of every attempt() that returned
    lastAttempt,        \* outcome of the latest attempt() call
    \* ---- worthiness parsers
    response,           \* the model's response, as the object JSON.parse yields
    insightResult,      \* parseInsightResponse(response)
    postIdeaResult,     \* parsePostIdeaResponse(response)
    scoutResult,        \* the object scoutAnalyze returns for response
    \* ---- HybridBufferAnalyzer (one conversation key) and its collaborators
    seqMode,            \* TRUE: handlers run one at a time; FALSE: they overlap
    dryRunMode,         \* config.features.dryRunMode
    redisOn,            \* this.redis is set (REDIS_URL configured)
    redisBuf,           \* the value stored in Redis under the buffer key
    localBuffers,       \* this.localBuffers entry of the key
    silenceTimers,      \* this.silenceTimers entry of the key: a timer handle, 0 if none
    timers,             \* every setTimeout handle made: time left and state
    stats,              \* this.stats
    procs,              \* the processMessage calls and timer callbacks in flight
    nextEvent,          \* number of Slack message events received so far
    arrivals,           \* history: per event, whether a bot sent it
    idleFor,            \* history: time since the last message event that was not a bot's
    lastTrigger,        \* history: the last processBatch run that found a non-empty window
    \* ---- legacy pipeline (one Conversation)
    conv,               \* the conversations row
    pendingBuffers,     \* conversationManager.pendingBuffers, by conversation id
    handlers,           \* the handleMessage / notify calls in flight
    received,           \* number of calls started so far
    posts,              \* history: messages posted to the channel by notify
    notifiedTransitions, \* history: times notified went from false to true
    notificationRecords, \* rows of type insight_detected in notifications
    dbFaults,           \* whether a database write may fail in this run
    lastDetectStart,    \* history: when geminiClient.detectInsight was last called
    \* ---- SignalGate
    gateState,          \* the Conversation snapshot handed to SignalGate.passes
    gateVerdict,        \* the snapshot last evaluated and what passes returned
    gatePrev,           \* the evaluation before that
    \* ---- GeminiClient.makeRequest
    req,                \* the call in progress: position, attempt, history
    reqCalls,           \* makeRequest calls started
    \* ---- response text
    text,               \* the response text makeRequest returned
    extracted,          \* extractJSON(text): what was parsed and returned
    scoutOut,           \* scoutAnalyze's result for text
    insightOut,         \* parseInsightResponse's result for text
    \* ---- ConversationManager.processMessage on the full row
    ingRow,             \* the conversations row
    ingCalls,           \* the processMessage calls in flight
    ingPending,         \* pendingBuffers entry of the conversation
    ingReceived,        \* number of calls started so far
    \* ---- SummaryCompressor.compressConversation, one call at a time
    cmpRow,             \* rolling_summary and summary_version of the row
    cmpPending,         \* pendingBuffers entry: its lines and its count
    cmpCall,            \* the compressConversation call in progress
    cmpCalls,           \* number of calls started so far
    cmpAdded,           \* lines added so far, and how many of them were short
    \* ---- EventHandler.handleMessage
    useSimpleAnalyzer,  \* config.features.useSimpleAnalyzer
    \* ---- Redis
    redisFaults,        \* a Redis command may fail
    \* ---- the process
    shutdownPc          \* "running", "stopping" (a signal handler runs), "exited"

rateVars  == <<requestTimestamps, dailyCount, dailyResetTime, granted, lastAttempt>>
parseVars == <<response, insightResult, postIdeaResult, scoutResult>>
bufVars == <<seqMode, dryRunMode, redisOn, redisBuf, localBuffers, silenceTimers, timers,
             stats, procs, nextEvent, arrivals, idleFor, lastTrigger>>
notifyVars == <<conv, pendingBuffers, handlers, received, posts, notifiedTransitions,
               notificationRecords, dbFaults, lastDetectStart>>
gateVars == <<gateState, gateVerdict, gatePrev>>
reqVars == <<req, reqCalls>>
textVars == <<text, extracted, scoutOut, insightOut>>
ingVars == <<ingRow, ingCalls, ingPending, ingReceived>>
cmpVars == <<cmpRow, cmpPending, cmpCall, cmpCalls, cmpAdded>>
moreVars == <<gateVars, reqVars, textVars, ingVars, cmpVars, useSimpleAnalyzer, redisFaults,
              shutdownPc>>
vars == <<now, rateVars, parseVars, bufVars, notifyVars, moreVars>>
notGate == <<now, rateVars, parseVars, bufVars, notifyVars, reqVars, textVars, ingVars, cmpVars,
    useSimpleAnalyzer, redisFaults, shutdownPc>>
notReq == <<parseVars, bufVars, notifyVars, gateVars, textVars, ingVars, cmpVars,
    useSimpleAnalyzer, redisFaults, shutdownPc>>
notText == <<now, rateVars, parseVars, bufVars, notifyVars, gateVars, reqVars, ingVars, cmpVars,
    useSimpleAnalyzer, redisFaults, shutdownPc>>
notIngest == <<rateVars, parseVars, bufVars, notifyVars, gateVars, reqVars, textVars, cmpVars,
    useSimpleAnalyzer, redisFaults, shutdownPc>>
notCompress == <<rateVars, parseVars, bufVars, notifyVars, gateVars, reqVars, textVars, ingVars,
    useSimpleAnalyzer, redisFaults, shutdownPc>>

(***************************************************************************)
(* Generic helpers                                                         *)
(***************************************************************************)
Max(a, b) == IF a >= b THEN a ELSE b
Min(a, b) == IF a <= b THEN a ELSE b

(***************************************************************************)
(* RateLimiter                                                             *)
(***************************************************************************)
\* config.gemini.maxRequestsPerMinute / maxRequestsPerDay, as passed to the
\* constructor; the model runs the configuration GEMINI_RPM=2, GEMINI_RPD=3.
maxRequestsPerMinute == 2
maxRequestsPerDay == 3

OneMinuteMs == 60000
MinRetryMs == 1000
DayMs == 86400000

\* The clock moves in steps of TickMs, at most MaxTicks times from its start.
TickMs == 10000
MaxTicks == 9
\* Start of the run: StartBeforeMidnightMs before a local midnight.
StartBeforeMidnightMs == 40000
StartNow == DayMs - StartBeforeMidnightMs
\* A run long enough before midnight to spend the day's quota
DailyStartBeforeMidnightMs == 80000
Callers == {"convA", "convB"}

\* getNextDayTimestamp: setHours(24,0,0,0) on today's date, the next midnight
getNextDayTimestamp(t) == ((t \div DayMs) + 1) * DayMs

NoAttempt == [status |-> "none", retryAfterMs |-> 0, caller |-> "none", at |-> 0]

RateInit ==
    /\ requestTimestamps = <<>>
    /\ dailyCount = 0
    /\ dailyResetTime = getNextDayTimestamp(StartNow)
    /\ granted = <<>>
    /\ lastAttempt = NoAttempt

\* checkDailyReset: the pair (dailyCount, dailyResetTime) after the call
checkDailyResetMutant(t, count, reset) ==
    [dailyCount |-> count, dailyResetTime |-> reset]
checkDailyReset(t, count, reset) ==
    IF t >= reset THEN [dailyCount |-> 0, dailyResetTime |-> getNextDayTimestamp(t)]
    ELSE [dailyCount |-> count, dailyResetTime |-> reset]

\* cleanOldTimestamps: keep the timestamps newer than one minute
cleanOldTimestamps(t, stamps) ==
    LET oneMinuteAgo == t - OneMinuteMs
        keep(ts) == ts > oneMinuteAgo
    IN SelectSeq(stamps, keep)

\* canMakeRequest, on the state checkDailyReset and cleanOldTimestamps leave
canMakeRequestMutant(stamps, count) ==
    ~(count >= maxRequestsPerDay)
canMakeRequest(stamps, count) ==
    IF Len(stamps) >= maxRequestsPerMinute THEN FALSE
    ELSE IF count >= maxRequestsPerDay THEN FALSE
    ELSE TRUE

\* getRetryAfterMs, on cleaned timestamps
getRetryAfterMs(t, stamps, count, reset) ==
    IF Len(stamps) >= maxRequestsPerMinute
    THEN Max(stamps[1] + OneMinuteMs - t, MinRetryMs)
    ELSE IF count >= maxRequestsPerDay THEN reset - t
    ELSE 0

\* attempt(): no await inside, so one call is one step of the event loop
Attempt(c) ==
    LET d == checkDailyReset(now, dailyCount, dailyResetTime)
        stamps == cleanOldTimestamps(now, requestTimestamps)
    IN /\ dailyResetTime' = d.dailyResetTime
       /\ IF canMakeRequest(stamps, d.dailyCount)
          THEN \* recordRequest
               /\ requestTimestamps' = Append(stamps, now)
               /\ dailyCount' = d.dailyCount + 1
               /\ granted' = Append(granted, <<now, c>>)
               /\ lastAttempt' = [status |-> "ok", retryAfterMs |-> 0,
                                  caller |-> c, at |-> now]
          ELSE \* throw new RateLimitError(message, retryAfterMs)
               /\ requestTimestamps' = stamps
               /\ dailyCount' = d.dailyCount
               /\ granted' = granted
               /\ lastAttempt' = [status |-> "RateLimitError",
                                  retryAfterMs |->
                                      getRetryAfterMs(now, stamps, d.dailyCount,
                                                      d.dailyResetTime),
                                  caller |-> c, at |-> now]

RateAttempt ==
    /\ \E c \in Callers : Attempt(c)
    /\ UNCHANGED <<now, parseVars, moreVars, bufVars, notifyVars>>

\* getStats(), called by the hourly health check: checkDailyReset and
\* cleanOldTimestamps run (canMakeRequest runs both once more), nothing is
\* recorded
GetStats ==
    LET d == checkDailyReset(now, dailyCount, dailyResetTime)
    IN /\ dailyCount' = d.dailyCount
       /\ dailyResetTime' = d.dailyResetTime
       /\ requestTimestamps' = cleanOldTimestamps(now, requestTimestamps)
       /\ UNCHANGED <<granted, lastAttempt>>

RateGetStats ==
    /\ GetStats
    /\ UNCHANGED <<now, parseVars, moreVars, bufVars, notifyVars>>

RateTick ==
    /\ now + TickMs <= StartNow + MaxTicks * TickMs
    /\ now' = now + TickMs
    /\ UNCHANGED <<rateVars, parseVars, moreVars, bufVars, notifyVars>>

(***************************************************************************)
(* Worthiness parsers of the Gemini client                                 *)
(***************************************************************************)
\* config.insightDetection.confidenceThreshold (0.7) and the literal 0.7 of
\* parsePostIdeaResponse, in tenths
confidenceThreshold == 7
PostIdeaMinConfidence == 7
MinCoreInsightLen == 10
MinSuggestedAngleLen == 20

\* JSON values: a number n/10, a string (numeric text n/10, or other text),
\* a boolean, null, or a missing key
JNum(n)  == [t |-> "number", n |-> n]
JStr(n)  == [t |-> "string", n |-> n]
JText    == [t |-> "text", n |-> 0]
JBool(b) == [t |-> "boolean", n |-> IF b THEN 10 ELSE 0]
JNull    == [t |-> "null", n |-> 0]
JUndef   == [t |-> "undefined", n |-> 0]
JTrue    == JBool(TRUE)
JFalse   == JBool(FALSE)

\* JavaScript's v >= k/10 and v < k/10 for a JSON value v: ToNumber(v) is
\* compared, and every comparison with NaN is false
IsNaN(v) == v.t \in {"text", "undefined"}
JsGE(v, k) == ~IsNaN(v) /\ v.n >= k
JsLT(v, k) == ~IsNaN(v) /\ v.n < k

Flags == {JTrue, JFalse, JStr(10), JUndef}
Confidences == {JNum(0), JNum(6), JNum(7), JNum(9), JNum(10), JNum(12), JNum(-1),
                JStr(9), JStr(3), JText, JTrue, JNull, JUndef}
\* string lengths of coreInsight and suggestedAngle; -1 is a missing key
TextLens == {-1, 0, 9, 10, 19, 20}

Responses ==
    [valid : BOOLEAN, isPostWorthy : Flags, hasPostIdea : Flags, worthy : Flags,
     confidence : Confidences, coreInsight : {-1, 9, 10}, suggestedAngle : {-1, 19, 20}]

NoResult == [worthy |-> FALSE, confidence |-> -1, fallback |-> FALSE]

\* parseInsightResponse: the isPostWorthy and confidence of the object returned
parseInsightResponse(r) ==
    IF \/ ~r.valid
       \/ r.isPostWorthy.t # "boolean"
       \/ r.confidence.t # "number"
       \/ r.confidence.n < 0
       \/ r.confidence.n > 10
    THEN [worthy |-> FALSE, confidence |-> 0, fallback |-> TRUE]
    ELSE LET w1 == IF r.confidence.n < confidenceThreshold THEN FALSE
                   ELSE r.isPostWorthy = JTrue
             w2 == IF r.coreInsight < MinCoreInsightLen THEN FALSE ELSE w1
             w3 == IF r.suggestedAngle < MinSuggestedAngleLen THEN FALSE ELSE w2
         IN [worthy |-> w3, confidence |-> r.confidence.n, fallback |-> FALSE]

\* parsePostIdeaResponse: the hasPostIdea and confidence of the object returned
parsePostIdeaResponse(r) ==
    IF ~r.valid
    THEN [worthy |-> FALSE, confidence |-> 0, fallback |-> TRUE]
    ELSE [worthy |-> (r.hasPostIdea = JTrue) /\ JsGE(r.confidence, PostIdeaMinConfidence),
          confidence |-> IF r.confidence.t = "number" THEN r.confidence.n ELSE 0,
          fallback |-> FALSE]

\* scoutAnalyze, from the parsed response on: extractJSON's object or its
\* fallback, then worthy: result.worthy === true. No confidence is read.
scoutParseMutant(r) == [worthy |-> TRUE, confidence |-> -1, fallback |-> ~r.valid]
scoutParse(r) ==
    IF ~r.valid
    THEN [worthy |-> FALSE, confidence |-> -1, fallback |-> TRUE]
    ELSE [worthy |-> (r.worthy = JTrue), confidence |-> -1, fallback |-> FALSE]

ParseInit ==
    /\ response \in Responses
    /\ insightResult = NoResult
    /\ postIdeaResult = NoResult
    /\ scoutResult = NoResult

ParseInsight ==
    /\ insightResult' = parseInsightResponse(response)
    /\ UNCHANGED <<now, rateVars, moreVars, bufVars, notifyVars, response, postIdeaResult, scoutResult>>

ParsePostIdea ==
    /\ postIdeaResult' = parsePostIdeaResponse(response)
    /\ UNCHANGED <<now, rateVars, moreVars, bufVars, notifyVars, response, insightResult, scoutResult>>

ParseScout ==
    /\ scoutResult' = scoutParse(response)
    /\ UNCHANGED <<now, rateVars, moreVars, bufVars, notifyVars, response, insightResult, postIdeaResult>>

(***************************************************************************)
(* HybridBufferAnalyzer                                                    *)
(***************************************************************************)
\* config.hybridBuffer; the model runs the configuration MAX_BATCH_SIZE=3,
\* SILENCE_TIMEOUT=2, OVERLAP_SIZE=1.
maxBatchSize == 3
silenceTimeoutSeconds == 2
overlapSize == 1
MsPerSecond == 1000
silenceTimeoutMs == silenceTimeoutSeconds * MsPerSecond
\* redis.set(key, value, 'EX', 6 * 60 * 60): the key lives six hours
bufferTtlSeconds == 21600
bufferTtlMs == bufferTtlSeconds * MsPerSecond

\* Events received in a run (sequential handlers, overlapping handlers),
\* handlers in flight at once
MaxEvents == 5
MaxOverlapEvents == 3
MaxProcs == 2
Procs == 1..MaxProcs

NoBuffer == [has |-> FALSE, messages |-> <<>>]
StoredBuffer(msgs) == [has |-> TRUE, messages |-> msgs]
\* An entry of the Map localBuffers holds a reference to a buffer object: obj
\* names the object, messages is what the object holds now
NoLocal == [has |-> FALSE, messages |-> <<>>, obj |-> 0]
LocalEntry(obj, msgs) == [has |-> TRUE, messages |-> msgs, obj |-> obj]
ValueOf(b) == [has |-> b.has, messages |-> b.messages]

NoTrigger == [type |-> "none", batch |-> <<>>, ev |-> 0, idle |-> 0, last |-> 0]

IdleProc == [pc |-> "idle", kind |-> "none", trigger |-> "none", ev |-> 0,
             got |-> NoBuffer, buffer |-> <<>>, batch |-> <<>>,
             scout |-> "none", author |-> "none",
             persisted |-> FALSE, posted |-> FALSE, result |-> "none",
             redisOk |-> TRUE, obj |-> 0, live |-> <<>>]

BufferInit ==
    /\ redisBuf = NoBuffer
    /\ localBuffers = NoLocal
    /\ silenceTimers = 0
    /\ timers = <<>>
    /\ stats = [messagesProcessed |-> 0, batchesProcessed |-> 0, silenceTriggers |-> 0,
                volumeTriggers |-> 0, insightsFound |-> 0]
    /\ procs = [p \in Procs |-> IdleProc]
    /\ nextEvent = 0
    /\ arrivals = <<>>
    /\ idleFor = 0
    /\ lastTrigger = NoTrigger

\* The last event before event e that no bot sent, 0 if there is none
PrevIngest(e) ==
    LET earlier == {i \in 1..Len(arrivals) : i < e /\ ~arrivals[i]}
    IN IF earlier = {} THEN 0 ELSE CHOOSE i \in earlier : \A j \in earlier : j <= i
LastIngest == PrevIngest(nextEvent + 1)
Ingested == Cardinality({i \in 1..Len(arrivals) : ~arrivals[i]})
EventLimit == IF seqMode THEN MaxEvents ELSE MaxOverlapEvents

AllIdle == \A p \in Procs : procs[p].pc = "idle"
\* A handler starts at any time; in the sequential runs, after the last one returned
MayStart == seqMode => AllIdle
FreeProc == CHOOSE p \in Procs : procs[p].pc = "idle" /\ \A q \in Procs : procs[q].pc = "idle" => p <= q

\* What the key holds in the store in use; a missing key (or an empty reply)
\* gives the empty window
getBuffer ==
    IF redisOn THEN redisBuf ELSE ValueOf(localBuffers)
\* How a Redis command can end
RedisOutcomes == IF redisFaults THEN BOOLEAN ELSE {TRUE}
\* getBuffer when redis.get answers reply (ok) or throws: the catch falls
\* through to localBuffers, read at that moment
readBufferMutant(ok, reply) ==
    IF redisOn THEN (IF ok THEN reply ELSE NoBuffer) ELSE ValueOf(localBuffers)
readBuffer(ok, reply) == IF redisOn /\ ok THEN reply ELSE ValueOf(localBuffers)

\* An object name no handler but p and no Map entry refers to
Referenced(p) ==
    {procs[q].obj : q \in Procs \ {p}} \cup {localBuffers.obj}
NewObject(p) ==
    IF p \notin Referenced(p) THEN p
    ELSE CHOOSE o \in 1..(MaxProcs + 1) :
             /\ o \notin Referenced(p)
             /\ \A n \in 1..(MaxProcs + 1) : n \notin Referenced(p) => o <= n
\* The object getBuffer returns: JSON.parse of a reply and the literal of the
\* empty window are new objects, the fallback returns the object the Map holds
\* when it holds one
bufferObject(p, ok) ==
    IF (redisOn /\ ok) \/ ~localBuffers.has THEN NewObject(p) ELSE localBuffers.obj

\* getBuffer is called: redis.get is issued and the reply read off the server
\* (whether it arrives is known when the promise settles); without Redis the
\* Map is read at once
IssueGet(p, rec, ok) ==
    IF redisOn
    THEN [rec EXCEPT !.got = IF ok THEN redisBuf ELSE NoBuffer, !.redisOk = ok,
                     !.obj = 0, !.live = <<>>]
    ELSE [rec EXCEPT !.got = readBuffer(ok, NoBuffer), !.redisOk = ok,
                     !.obj = bufferObject(p, ok), !.live = localBuffers.messages]
\* getBuffer returns to the handler that awaits it: the object and its window
ReturnedObject(p) ==
    IF redisOn THEN bufferObject(p, procs[p].redisOk) ELSE procs[p].obj
ReturnedBuffer(p) ==
    IF redisOn THEN readBuffer(procs[p].redisOk, procs[p].got)
    ELSE [has |-> procs[p].got.has, messages |-> procs[p].live]

\* An assignment to buffer.messages, or a push on it, is seen through every
\* reference to the object: by the handlers that hold it and by the Map
Sharers(p, o, msgs, rec) ==
    [q \in Procs |-> IF q = p THEN rec
                     ELSE IF procs[q].obj = o /\ o # 0
                          THEN [procs[q] EXCEPT !.live = msgs]
                          ELSE procs[q]]
SharedLocal(o, msgs) ==
    IF localBuffers.has /\ localBuffers.obj = o
    THEN [localBuffers EXCEPT !.messages = msgs]
    ELSE localBuffers

\* saveBuffer is called with object o holding msgs: redis.set carries the
\* JSON text of the object and gives the key six hours to live from now
\* (KeyExpires); without Redis the Map entry is set at once; a redis.set that
\* throws leaves the Map to the catch, after the await
IssueSave(ok, o, msgs) ==
    IF redisOn
    THEN /\ redisBuf' = IF ok THEN StoredBuffer(msgs) ELSE redisBuf
         /\ localBuffers' = SharedLocal(o, msgs)
    ELSE /\ localBuffers' = LocalEntry(o, msgs)
         /\ UNCHANGED redisBuf
\* clearBuffer is called
IssueClear(ok, b) ==
    IF redisOn
    THEN /\ redisBuf' = IF ok THEN b ELSE redisBuf
         /\ UNCHANGED localBuffers
    ELSE /\ localBuffers' = NoLocal
         /\ UNCHANGED redisBuf
\* saveBuffer / clearBuffer after the await: the fallback of a command that
\* threw, localBuffers.set(key, buffer) or localBuffers.delete(key)
SettleSave(rec) ==
    IF redisOn /\ ~rec.redisOk
    THEN localBuffers' = LocalEntry(rec.obj, rec.live)
    ELSE UNCHANGED localBuffers
SettleClear(rec) ==
    IF redisOn /\ ~rec.redisOk
    THEN localBuffers' = NoLocal
    ELSE UNCHANGED localBuffers
WindowOf(b) == IF b.has THEN b.messages ELSE <<>>

\* Array.prototype.slice(start): a negative start counts from the end
JsSlice(s, start) ==
    LET from == IF start < 0 THEN Max(Len(s) + start, 0) ELSE Min(start, Len(s))
    IN SubSeq(s, from + 1, Len(s))

\* batchToAnalyze.slice(-this.overlapSize)
overlapTailMutant(batch) == SubSeq(batch, 1, Min(overlapSize, Len(batch)))
overlapTail(batch) == JsSlice(batch, -overlapSize)

\* saveBuffer / clearBuffer: the value the key holds afterwards
clearedBufferMutant(b) == b
clearedBuffer(b) == NoBuffer

\* clearTimeout(handle) on the table of timer handles; 0 is no handle
clearTimeoutMutant(ts, h) == ts
clearTimeout(ts, h) ==
    IF h = 0 \/ ts[h].state # "pending" THEN ts
    ELSE [ts EXCEPT ![h] = [@ EXCEPT !.state = "cancelled", !.left = 0]]

\* the empty-buffer check of processBatch
emptyBatchMutant(batchToAnalyze) == FALSE
emptyBatch(batchToAnalyze) == Len(batchToAnalyze) = 0

\* the volume check of processMessage
volumeTriggerHit(buffer) == Len(buffer) >= maxBatchSize

\* runAIPipeline goes on to the Author only for a worthy scout result
authorRunsMutant(worthy) == TRUE
authorRuns(worthy) == worthy

SetProc(p, r) == procs' = [procs EXCEPT ![p] = r]

\* message.bot_id || message.subtype === 'bot_message', and the isBot flag
\* MessageParser.parse derives from the same two fields
isBotMessageMutant(bot) == FALSE
isBotMessage(bot) == bot

\* A Slack message event reaches processMessage. A bot message returns at once;
\* another one issues getBuffer.
Receive(bot) ==
    /\ nextEvent < EventLimit
    /\ MayStart
    /\ \E q \in Procs : procs[q].pc = "idle"
    /\ \E ok \in RedisOutcomes :
       LET p == FreeProc
           e == nextEvent + 1
       IN /\ nextEvent' = e
          /\ arrivals' = Append(arrivals, bot)
          /\ idleFor' = IF bot THEN idleFor ELSE 0
          /\ stats' = [stats EXCEPT !.messagesProcessed = @ + 1]
          /\ IF isBotMessage(bot)
             THEN SetProc(p, [IdleProc EXCEPT !.pc = "done", !.kind = "ingest", !.ev = e,
                                             !.result = "null"])
             ELSE SetProc(p, IssueGet(p, [IdleProc EXCEPT !.pc = "pm_get",
                                                          !.kind = "ingest", !.ev = e], ok))
    /\ UNCHANGED <<now, rateVars, parseVars, moreVars, notifyVars, seqMode, dryRunMode, redisOn, redisBuf,
                   localBuffers, silenceTimers, timers, lastTrigger>>

ReceiveMessage == Receive(FALSE)
ReceiveBotMessage == Receive(TRUE)

\* buffer.messages.push(message) on the window that getBuffer returned
pushMessageMutant(got, ev) == Append(WindowOf(getBuffer), ev)
pushMessage(got, ev) == Append(WindowOf(got), ev)

\* processMessage after getBuffer: push the message on the object returned,
\* call saveBuffer
PmAfterGet(p) ==
    /\ procs[p].pc = "pm_get"
    /\ \E ok \in RedisOutcomes :
       LET o == ReturnedObject(p)
           got == ReturnedBuffer(p)
           buffer == pushMessage(got, procs[p].ev)
       IN /\ procs' = Sharers(p, o, buffer,
                              [procs[p] EXCEPT !.pc = "pm_save", !.got = got,
                                               !.buffer = buffer, !.redisOk = ok,
                                               !.obj = o, !.live = buffer])
          /\ IssueSave(ok, o, buffer)
    /\ UNCHANGED <<now, rateVars, parseVars, moreVars, notifyVars, seqMode, dryRunMode, redisOn, silenceTimers,
                   timers, stats, nextEvent, arrivals, idleFor, lastTrigger>>

\* setTimeout(callback, this.silenceTimeoutMs) for the event being ingested
setTimeoutMutant(ts, ev) ==
    Append(ts, [left |-> 0, state |-> "cancelled", ev |-> ev])
setTimeout(ts, ev) ==
    Append(ts, [left |-> silenceTimeoutMs, state |-> "pending", ev |-> ev])

\* processMessage after saveBuffer (the fallback of a redis.set that threw
\* comes first): the volume trigger, or the debounced timer
PmAfterSave(p) ==
    /\ procs[p].pc = "pm_save"
    /\ SettleSave(procs[p])
    /\ IF volumeTriggerHit(procs[p].live)
       THEN \* cancel the timer, processBatch('max_cap') calls getBuffer
            /\ timers' = clearTimeout(timers, silenceTimers)
            /\ silenceTimers' = 0
            /\ \E ok \in RedisOutcomes :
                   SetProc(p, IssueGet(p, [procs[p] EXCEPT !.pc = "pb_get",
                                                          !.trigger = "max_cap"], ok))
       ELSE \* clearTimeout(old), setTimeout(callback, silenceTimeoutMs), return null
            /\ timers' = setTimeout(clearTimeout(timers, silenceTimers), procs[p].ev)
            /\ silenceTimers' = Len(timers) + 1
            /\ SetProc(p, [procs[p] EXCEPT !.pc = "done", !.result = "null",
                                           !.obj = 0, !.live = <<>>])
    /\ UNCHANGED <<now, rateVars, parseVars, moreVars, notifyVars, seqMode, dryRunMode, redisOn, redisBuf,
                   stats, nextEvent, arrivals, idleFor, lastTrigger>>

\* A pending timer whose delay has passed runs its callback:
\* silenceTimers.delete(key), processBatch('silence') issues getBuffer
TimerFire(h) ==
    /\ timers[h].state = "pending"
    /\ timers[h].left = 0
    /\ MayStart
    /\ \E q \in Procs : procs[q].pc = "idle"
    /\ timers' = [timers EXCEPT ![h].state = "fired"]
    /\ silenceTimers' = 0
    /\ \E ok \in RedisOutcomes :
           SetProc(FreeProc, IssueGet(FreeProc,
                                      [IdleProc EXCEPT !.pc = "pb_get", !.kind = "timer",
                                                       !.trigger = "silence",
                                                       !.ev = timers[h].ev], ok))
    /\ UNCHANGED <<now, rateVars, parseVars, moreVars, notifyVars, seqMode, dryRunMode, redisOn, redisBuf,
                   localBuffers, stats, nextEvent, arrivals, idleFor, lastTrigger>>

SilenceTimerFires == \E h \in 1..Len(timers) : TimerFire(h)

\* processBatch after getBuffer: skip an empty window; otherwise copy the
\* batch, then assign the overlap to buffer.messages and call saveBuffer
\* (volume) or call clearBuffer (silence)
PbAfterGet(p) ==
    /\ procs[p].pc = "pb_get"
    /\ \E ok \in RedisOutcomes :
       LET o == ReturnedObject(p)
           got == ReturnedBuffer(p)
           batchToAnalyze == WindowOf(got)
           kept == IF procs[p].trigger = "max_cap"
                   THEN overlapTail(batchToAnalyze)
                   ELSE batchToAnalyze
       IN IF emptyBatch(batchToAnalyze)
          THEN /\ SetProc(p, [procs[p] EXCEPT !.pc = "done", !.result = "null",
                                              !.got = got, !.obj = 0, !.live = <<>>])
               /\ UNCHANGED <<redisBuf, localBuffers, stats, lastTrigger>>
          ELSE /\ procs' = Sharers(p, o, kept,
                                   [procs[p] EXCEPT !.pc = "pb_close", !.got = got,
                                                    !.batch = batchToAnalyze,
                                                    !.redisOk = ok, !.obj = o,
                                                    !.live = kept])
               /\ stats' = [stats EXCEPT
                              !.batchesProcessed = @ + 1,
                              !.volumeTriggers =
                                  IF procs[p].trigger = "max_cap" THEN @ + 1 ELSE @,
                              !.silenceTriggers =
                                  IF procs[p].trigger = "silence" THEN @ + 1 ELSE @]
               /\ lastTrigger' = [type |-> procs[p].trigger, batch |-> batchToAnalyze,
                                  ev |-> procs[p].ev, idle |-> idleFor,
                                  last |-> LastIngest]
               /\ IF procs[p].trigger = "max_cap"
                  THEN IssueSave(ok, o, kept)
                  ELSE IssueClear(ok, clearedBuffer(getBuffer))
    /\ UNCHANGED <<now, rateVars, parseVars, moreVars, notifyVars, seqMode, dryRunMode, redisOn, silenceTimers,
                   timers, nextEvent, arrivals, idleFor>>

\* processBatch after saveBuffer / clearBuffer (the fallback of a command
\* that threw comes first): runAIPipeline calls the Scout
PbAfterClose(p) ==
    /\ procs[p].pc = "pb_close"
    /\ IF procs[p].trigger = "max_cap"
       THEN SettleSave(procs[p])
       ELSE SettleClear(procs[p])
    /\ SetProc(p, [procs[p] EXCEPT !.pc = "scout", !.obj = 0, !.live = <<>>])
    /\ UNCHANGED <<now, rateVars, parseVars, moreVars, notifyVars, seqMode, dryRunMode, redisOn, redisBuf,
                   silenceTimers, timers, stats, nextEvent, arrivals,
                   idleFor, lastTrigger>>

\* scoutAnalyze returns (it never throws: any failure is a not-worthy result);
\* only a worthy result goes on to authorGeneratePost
ScoutReturns(p, worthy) ==
    /\ procs[p].pc = "scout"
    /\ IF authorRuns(worthy)
       THEN SetProc(p, [procs[p] EXCEPT !.pc = "author",
                           !.scout = IF worthy THEN "worthy" ELSE "not_worthy"])
       ELSE SetProc(p, [procs[p] EXCEPT !.pc = "done", !.scout = "not_worthy",
                                        !.result = "null"])
    /\ UNCHANGED <<now, rateVars, parseVars, moreVars, notifyVars, seqMode, dryRunMode, redisOn, redisBuf,
                   localBuffers, silenceTimers, timers, stats, nextEvent, arrivals,
                   idleFor, lastTrigger>>

\* authorGeneratePost returns the post, or null after a failure; a post is
\* counted and createPostChain is called
AuthorReturns(p, ok) ==
    /\ procs[p].pc = "author"
    /\ IF ok
       THEN /\ SetProc(p, [procs[p] EXCEPT !.pc = "chain", !.author = "post"])
            /\ stats' = [stats EXCEPT !.insightsFound = @ + 1]
       ELSE /\ SetProc(p, [procs[p] EXCEPT !.pc = "done", !.author = "null",
                                           !.result = "null"])
            /\ UNCHANGED stats
    /\ UNCHANGED <<now, rateVars, parseVars, moreVars, notifyVars, seqMode, dryRunMode, redisOn, redisBuf,
                   localBuffers, silenceTimers, timers, nextEvent, arrivals, idleFor, lastTrigger>>

\* createPostChain inserts the conversation, the insight and the generated
\* post one after the other and returns the three records, or throws on the
\* first insert that fails (runAIPipeline catches and returns null); outside
\* dry-run mode the notification is posted next
ChainReturns(p, ok) ==
    /\ procs[p].pc = "chain"
    /\ IF ~ok
       THEN SetProc(p, [procs[p] EXCEPT !.pc = "done", !.result = "null"])
       ELSE IF dryRunMode
       THEN SetProc(p, [procs[p] EXCEPT !.pc = "done", !.persisted = TRUE,
                                        !.result = "post"])
       ELSE SetProc(p, [procs[p] EXCEPT !.pc = "post", !.persisted = TRUE])
    /\ UNCHANGED <<now, rateVars, parseVars, moreVars, notifyVars, seqMode, dryRunMode, redisOn, redisBuf,
                   localBuffers, silenceTimers, timers, stats, nextEvent, arrivals,
                   idleFor, lastTrigger>>

\* notifier.postInChannel returns, or throws SlackAPIError (caught: null);
\* after a delivery dbHandler.logNotification is called
PostReturns(p, ok) ==
    /\ procs[p].pc = "post"
    /\ IF ok
       THEN SetProc(p, [procs[p] EXCEPT !.pc = "log", !.posted = TRUE])
       ELSE SetProc(p, [procs[p] EXCEPT !.pc = "done", !.result = "null"])
    /\ UNCHANGED <<now, rateVars, parseVars, moreVars, notifyVars, seqMode, dryRunMode, redisOn, redisBuf,
                   localBuffers, silenceTimers, timers, stats, nextEvent, arrivals,
                   idleFor, lastTrigger>>

\* logNotification returns (it swallows its own errors); the pipeline returns
\* the records
LogReturns(p) ==
    /\ procs[p].pc = "log"
    /\ SetProc(p, [procs[p] EXCEPT !.pc = "done", !.result = "post"])
    /\ UNCHANGED <<now, rateVars, parseVars, moreVars, notifyVars, seqMode, dryRunMode, redisOn, redisBuf,
                   localBuffers, silenceTimers, timers, stats, nextEvent, arrivals,
                   idleFor, lastTrigger>>

\* The handler's promise settles and its frame is gone
Return(p) ==
    /\ procs[p].pc = "done"
    /\ SetProc(p, IdleProc)
    /\ UNCHANGED <<now, rateVars, parseVars, moreVars, notifyVars, seqMode, dryRunMode, redisOn, redisBuf,
                   localBuffers, silenceTimers, timers, stats, nextEvent, arrivals,
                   idleFor, lastTrigger>>

BufStep ==
    \E p \in Procs :
        \/ PmAfterGet(p)
        \/ PmAfterSave(p)
        \/ PbAfterGet(p)
        \/ PbAfterClose(p)
        \/ \E worthy \in BOOLEAN : ScoutReturns(p, worthy)
        \/ \E ok \in BOOLEAN : AuthorReturns(p, ok)
        \/ \E ok \in BOOLEAN : ChainReturns(p, ok)
        \/ \E ok \in BOOLEAN : PostReturns(p, ok)
        \/ LogReturns(p)
        \/ Return(p)

\* A second passes on the timers that are pending. A timer that is due fires
\* before the clock moves on.
TimerPending == \E h \in 1..Len(timers) : timers[h].state = "pending"
TimerDue == \E h \in 1..Len(timers) : timers[h].state = "pending" /\ timers[h].left = 0
BufTick ==
    /\ TimerPending
    /\ ~TimerDue
    /\ MayStart
    /\ timers' = [h \in 1..Len(timers) |->
                    IF timers[h].state = "pending"
                    THEN [timers[h] EXCEPT !.left = @ - MsPerSecond]
                    ELSE timers[h]]
    /\ idleFor' = idleFor + MsPerSecond
    /\ UNCHANGED <<now, rateVars, parseVars, moreVars, notifyVars, seqMode, dryRunMode, redisOn, redisBuf,
                   localBuffers, silenceTimers, stats, procs, nextEvent, arrivals,
                   lastTrigger>>

\* The key saveBuffer wrote expires: Redis drops it six hours after the last
\* set. A silence timer that is pending fires before that, and the awaits of
\* a handler in flight end long before, so the key expires on an idle key
\* with no timer, which is the overlap a volume trigger left
KeyExpires ==
    /\ redisOn
    /\ redisBuf.has
    /\ AllIdle
    /\ \A h \in 1..Len(timers) : timers[h].state = "pending" => timers[h].left >= bufferTtlMs
    /\ redisBuf' = NoBuffer
    /\ idleFor' = idleFor + bufferTtlMs
    /\ UNCHANGED <<now, rateVars, parseVars, moreVars, notifyVars, seqMode, dryRunMode, redisOn,
                   localBuffers, silenceTimers, timers, stats, procs, nextEvent, arrivals,
                   lastTrigger>>

(***************************************************************************)
(* Legacy pipeline: one Conversation row, the message handlers of          *)
(* EventHandler, SummaryCompressor, InsightDetector and Notifier           *)
(***************************************************************************)
\* config.summaryCompression and config.insightDetection; the model runs the
\* configuration COMPRESS_MSG_COUNT=2, COMPRESS_MINUTES=1, INSIGHT_COOLDOWN_MIN=2.
triggerMessageCount == 2
triggerWordCount == 300
triggerMinutesSinceLastCompress == 1
cooldownMinutes == 2
MinBufferForTimedCompress == 2
MinuteMs == 60000
MinSummaryLen == 50
EmergencyJoinLen == 21
FirstSummaryVersion == 1
enableInsightDetection == TRUE
enableSummaryCompression == TRUE

\* Messages handled in a run, minutes on the clock
MaxMessages == 2
MaxMinutes == 3
Handlers == {"h1", "h2"}
\* Word counts of the messages received; the lengths compressSummary returns;
\* the length of the lines emergencyCompress keeps (lines longer than 50 or none)
MessageWords == {5, 300}
SummaryLens == {49, 50}
TruncatedLens == {0, 51}

\* A timestamp column that is null holds 0; the clock starts after 0.
\* rolling_summary is kept by its length, 50 standing for 50 or more (the one
\* threshold the code compares it with). The columns that only SignalGate
\* reads (participant_ids, total_word_count, last_activity) or nothing reads
\* (signal_score, gate_passed_at) are left out: the gate's verdict is an input
\* of each step that asks for it.
\* exists tells whether the table holds the row of the conversation: NewRow
\* is the row as create inserts it, NoRow the table before the first message.
\* id is the primary key the database gives the row, the n-th row created for
\* the conversation having id n; a table without the row keeps in id the key
\* of the last row it held. null, the answer of a query that finds no row, is
\* a row that does not exist.
NewRow == [exists |-> TRUE, id |-> 1, message_count |-> 0, rolling_summary |-> 0,
           summary_version |-> FirstSummaryVersion, llm_last_called_at |-> 0,
           notified |-> FALSE]
NoRow == [NewRow EXCEPT !.exists = FALSE, !.id = 0]
\* The row after a first message of 300 words was compressed at the first minute
SummarisedRow == [exists |-> TRUE, id |-> 1, message_count |-> 1, rolling_summary |-> MinSummaryLen,
                  summary_version |-> FirstSummaryVersion + 1,
                  llm_last_called_at |-> MinuteMs, notified |-> FALSE]
EmptyPending == [count |-> 0, wordCount |-> 0]
\* The ids of the rows of one run: the row it may start with and one row for
\* each message received, since only findOrCreate inserts a row
ConversationIds == 1..(MaxMessages + 1)
\* this.pendingBuffers = new Map(), by conversation id
EmptyBuffers == [id \in ConversationIds |-> EmptyPending]
IdleHandler == [pc |-> "idle", kind |-> "none", words |-> 0, conversation |-> NewRow,
                gate |-> FALSE, worthy |-> FALSE, insight |-> FALSE, posted |-> FALSE,
                marked |-> FALSE, recorded |-> FALSE, result |-> "none", cmpAt |-> 0,
                threw |-> FALSE]

NotifyRest ==
    /\ pendingBuffers = EmptyBuffers
    /\ handlers = [h \in Handlers |-> IdleHandler]
    /\ received = 0
    /\ posts = 0
    /\ notifiedTransitions = 0
    /\ notificationRecords = (IF conv.notified THEN 1 ELSE 0)
    /\ lastDetectStart = 0

NotifyInit ==
    /\ conv = NewRow
    /\ dbFaults = FALSE
    /\ pendingBuffers = EmptyBuffers
    /\ handlers = [h \in Handlers |-> IdleHandler]
    /\ received = 0
    /\ posts = 0
    /\ notifiedTransitions = 0
    /\ notificationRecords = (IF conv.notified THEN 1 ELSE 0)
    /\ lastDetectStart = 0

\* conversationRepo.update(id, updates): the named columns are written, the
\* others keep their value; the whole row is returned
conversationUpdate(row, updates) ==
    [f \in DOMAIN row |-> IF f \in DOMAIN updates THEN updates[f] ELSE row[f]]

\* The columns updateConversationState writes, from the row it was handed
stateUpdatesMutant(conversation) ==
    [conversation EXCEPT !.message_count = conversation.message_count + 1]
stateUpdates(conversation) ==
    [message_count |-> conversation.message_count + 1]

addToBuffer(buffer, wordCount) ==
    [count |-> buffer.count + 1, wordCount |-> buffer.wordCount + wordCount]

shouldTriggerCompression(conversation, buffer, t) ==
    IF buffer.count = 0 THEN FALSE
    ELSE IF buffer.count >= triggerMessageCount \/ buffer.wordCount >= triggerWordCount
    THEN TRUE
    ELSE IF /\ conversation.llm_last_called_at # 0
            /\ t - conversation.llm_last_called_at
                   >= triggerMinutesSinceLastCompress * MinuteMs
            /\ buffer.count >= MinBufferForTimedCompress
    THEN TRUE
    ELSE FALSE

shouldTriggerInsightDetection(conversation, gatePasses, t) ==
    IF ~gatePasses THEN FALSE
    ELSE IF conversation.notified THEN FALSE
    ELSE IF ~enableInsightDetection THEN FALSE
    ELSE IF /\ conversation.llm_last_called_at # 0
            /\ t - conversation.llm_last_called_at < cooldownMinutes * MinuteMs
    THEN FALSE
    ELSE TRUE

\* (conversation.summary_version || 1) + 1
nextSummaryVersionMutant(summary_version) ==
    IF summary_version = 0 THEN FirstSummaryVersion ELSE summary_version
nextSummaryVersion(summary_version) ==
    (IF summary_version = 0 THEN FirstSummaryVersion ELSE summary_version) + 1

\* Length of the summary emergencyCompress writes
emergencySummary(rolling_summary, truncated) ==
    IF rolling_summary # 0
    THEN Min(rolling_summary + EmergencyJoinLen + truncated, MinSummaryLen)
    ELSE Min(truncated, MinSummaryLen)

\* The idempotency check of notify
alreadyNotifiedMutant(conversation) == FALSE
alreadyNotified(conversation) == conversation.notified

\* getConversationById(conversationId): the row of that id, null when the
\* table does not hold it
getConversationById(conversationId) ==
    IF conv.exists /\ conv.id = conversationId THEN conv
    ELSE [NoRow EXCEPT !.id = conversationId]

\* detectInsight(conversationId) is called: getConversationById is issued
EnterDetect(rec) ==
    [rec EXCEPT !.pc = "det_get", !.conversation = getConversationById(rec.conversation.id)]
\* The call returns: of its frame the result is kept, what it did, and the
\* notified flag of the conversation object it held
Finish(rec, result) ==
    [rec EXCEPT !.pc = "done", !.result = result, !.words = 0, !.threw = FALSE,
                !.conversation = [NewRow EXCEPT !.notified = rec.conversation.notified]]
\* notify(insight, conversation) up to its first await
notifyOutcomeMutant(worthy, conversation) ==
    IF alreadyNotified(conversation) THEN "already_notified"
    ELSE IF ~worthy THEN "not_post_worthy"
    ELSE "post"
notifyOutcome(worthy, conversation) ==
    IF alreadyNotified(conversation) THEN "already_notified"
    ELSE IF ~worthy THEN "not_post_worthy"
    ELSE IF dryRunMode THEN "dry_run"
    ELSE "post"
EnterNotify(rec) ==
    LET outcome == notifyOutcome(rec.worthy, rec.conversation)
    IN IF outcome = "post"
       THEN [rec EXCEPT !.pc = "post"]
       ELSE Finish(rec, outcome)

\* handleMessage once it holds the conversation to test for insight detection
DetectOrFinish(rec, conversation, gatePasses) ==
    IF shouldTriggerInsightDetection(conversation, gatePasses, now)
    THEN EnterDetect([rec EXCEPT !.gate = gatePasses])
    ELSE Finish([rec EXCEPT !.gate = gatePasses], "no_detection")

SetHandler(h, rec) == handlers' = [handlers EXCEPT ![h] = rec]
WriteRow(updates) == conv' = conversationUpdate(conv, updates)
FreeHandler == CHOOSE h \in Handlers : handlers[h].pc = "idle"
counters == <<posts, notifiedTransitions, notificationRecords, dbFaults, lastDetectStart>>

\* handleMessage receives a message on the legacy path; processMessage drops
\* noise, and calls findOrCreate for anything else
HandleMessage(h, noise, words) ==
    /\ handlers[h].pc = "idle"
    /\ h = FreeHandler
    /\ received < MaxMessages
    /\ received' = received + 1
    /\ IF noise
       THEN SetHandler(h, [IdleHandler EXCEPT !.pc = "done", !.kind = "message",
                                              !.result = "filtered"])
       ELSE SetHandler(h, [IdleHandler EXCEPT !.pc = "find", !.kind = "message",
                                              !.words = words, !.conversation = conv])
    /\ UNCHANGED <<now, rateVars, parseVars, moreVars, bufVars, conv, pendingBuffers, counters>>

\* A database write either succeeds or, where faults are possible, fails; so
\* does a query (found)
WriteOutcomes == IF dbFaults THEN BOOLEAN ELSE {TRUE}

\* update ... .eq('id', id).select().single() writes the row of that id: it
\* fails with the database, and when the table holds no row of that id
updated(id, written) == written /\ conv.exists /\ conv.id = id

\* conversationRepo.update(id, updates) is issued by the handler whose frame is
\* rec: the row is written and handed back, or the database fails, the row
\* keeps its columns and update throws DatabaseError to the awaiting caller
Update(h, rec, updates, written) ==
    IF updated(rec.conversation.id, written)
    THEN /\ WriteRow(updates)
         /\ SetHandler(h, [rec EXCEPT !.conversation = conv'])
    ELSE /\ UNCHANGED conv
         /\ SetHandler(h, [rec EXCEPT !.threw = TRUE])

\* conversationRepo.create is issued: the insert fails on the unique index
\* when the table holds the row by now, or with the database
createConversation(h, rec, written) ==
    IF written /\ ~conv.exists
    THEN /\ conv' = [NewRow EXCEPT !.id = conv.id + 1]
         /\ SetHandler(h, [rec EXCEPT !.conversation = conv'])
    ELSE /\ UNCHANGED conv
         /\ SetHandler(h, [rec EXCEPT !.threw = TRUE])

\* findOrCreate after findByChannelAndThread: a failed query throws and
\* processMessage rethrows; the row found goes to updateConversationState,
\* which issues its update; no row makes it create one
AfterFind(h, found, written) ==
    /\ handlers[h].pc = "find"
    /\ IF ~found
       THEN /\ SetHandler(h, Finish(handlers[h], "error"))
            /\ UNCHANGED conv
       ELSE IF handlers[h].conversation.exists
       THEN Update(h, [handlers[h] EXCEPT !.pc = "update"],
                   stateUpdates(handlers[h].conversation), written)
       ELSE createConversation(h, [handlers[h] EXCEPT !.pc = "create"], written)
    /\ UNCHANGED <<now, rateVars, parseVars, moreVars, bufVars, pendingBuffers, received, counters>>

\* findOrCreate after create: it threw and processMessage rethrows, or
\* updateConversationState issues its update on the row created
AfterCreate(h, written) ==
    /\ handlers[h].pc = "create"
    /\ IF handlers[h].threw
       THEN /\ SetHandler(h, Finish(handlers[h], "error"))
            /\ UNCHANGED conv
       ELSE Update(h, [handlers[h] EXCEPT !.pc = "update"],
                   stateUpdates(handlers[h].conversation), written)
    /\ UNCHANGED <<now, rateVars, parseVars, moreVars, bufVars, pendingBuffers, received, counters>>

\* processMessage after the update: it threw and handleMessage rejects; or
\* addToBuffer, shouldTriggerCompression, and handleMessage then compresses or
\* tests for insight detection
AfterUpdate(h, gatePasses) ==
    /\ handlers[h].pc = "update"
    /\ IF handlers[h].threw
       THEN /\ SetHandler(h, Finish(handlers[h], "error"))
            /\ UNCHANGED pendingBuffers
       ELSE /\ pendingBuffers' =
                   [pendingBuffers EXCEPT ![handlers[h].conversation.id] =
                        addToBuffer(@, handlers[h].words)]
            /\ IF shouldTriggerCompression(handlers[h].conversation,
                                           pendingBuffers'[handlers[h].conversation.id], now)
               THEN SetHandler(h, [handlers[h] EXCEPT !.pc = "cmp_get", !.words = 0,
                                       !.conversation =
                                           getConversationById(handlers[h].conversation.id)])
               ELSE SetHandler(h, DetectOrFinish([handlers[h] EXCEPT !.words = 0],
                                                 handlers[h].conversation, gatePasses))
    /\ UNCHANGED <<now, rateVars, parseVars, moreVars, bufVars, conv, received, counters>>

\* compressConversation after getConversationById: no row returns null and
\* handleMessage stops there; nothing pending returns the row as it is;
\* otherwise Gemini is called
AfterCmpGet(h, gatePasses, found) ==
    /\ handlers[h].pc = "cmp_get"
    /\ LET conversation == IF found THEN handlers[h].conversation
                            ELSE [NoRow EXCEPT !.id = handlers[h].conversation.id]
           rec == [handlers[h] EXCEPT !.conversation = conversation]
       IN IF ~conversation.exists
          THEN SetHandler(h, Finish(rec, "not_found"))
          ELSE IF ~enableSummaryCompression \/ pendingBuffers[conversation.id].count = 0
          THEN SetHandler(h, DetectOrFinish(rec, conversation, gatePasses))
          ELSE SetHandler(h, [rec EXCEPT !.pc = "cmp_llm"])
    /\ UNCHANGED <<now, rateVars, parseVars, moreVars, bufVars, conv, pendingBuffers, received,
                   counters>>

\* The columns compressConversation writes after compressSummary returned
compressionUpdatesMutant(len, summary_version, t) ==
    [rolling_summary |-> len,
     summary_version |-> nextSummaryVersion(summary_version)]
compressionUpdates(len, summary_version, t) ==
    [rolling_summary |-> len,
     summary_version |-> nextSummaryVersion(summary_version),
     llm_last_called_at |-> t]

\* emergencyCompress up to its await: nothing pending returns null, otherwise
\* the row is read again
EnterEmergency(rec) ==
    IF pendingBuffers[rec.conversation.id].count = 0
    THEN Finish(rec, "no_summary")
    ELSE [rec EXCEPT !.pc = "emg_get", !.threw = FALSE,
                     !.conversation = getConversationById(rec.conversation.id)]

\* compressSummary returns a summary and the update is issued; or it throws
\* and the catch runs emergencyCompress
AfterCmpLlm(h, ok, len, written) ==
    /\ handlers[h].pc = "cmp_llm"
    /\ IF ok
       THEN Update(h, [handlers[h] EXCEPT !.pc = "cmp_update",
                                          !.cmpAt = IF written THEN now ELSE @],
                   compressionUpdates(len, handlers[h].conversation.summary_version, now),
                   written)
       ELSE /\ SetHandler(h, EnterEmergency(handlers[h]))
            /\ UNCHANGED conv
    /\ UNCHANGED <<now, rateVars, parseVars, moreVars, bufVars, pendingBuffers, received, counters>>

\* compressConversation after its update: it threw and the catch runs
\* emergencyCompress; or clearBuffer, and handleMessage tests the row it got
\* back for insight detection
AfterCmpUpdate(h, gatePasses) ==
    /\ handlers[h].pc = "cmp_update"
    /\ IF handlers[h].threw
       THEN /\ SetHandler(h, EnterEmergency(handlers[h]))
            /\ UNCHANGED pendingBuffers
       ELSE /\ pendingBuffers' =
                   [pendingBuffers EXCEPT ![handlers[h].conversation.id] = EmptyPending]
            /\ SetHandler(h, DetectOrFinish(handlers[h], handlers[h].conversation,
                                            gatePasses))
    /\ UNCHANGED <<now, rateVars, parseVars, moreVars, bufVars, conv, received, counters>>

\* emergencyCompress after getConversationById: the update of the truncated
\* buffer is issued; with no row, reading conversation.rolling_summary throws
\* a TypeError, compressConversation rethrows and handleMessage logs that
\* compression failed
AfterEmgGet(h, truncated, found, written) ==
    /\ handlers[h].pc = "emg_get"
    /\ LET conversation == IF found THEN handlers[h].conversation
                            ELSE [NoRow EXCEPT !.id = handlers[h].conversation.id]
           rec == [handlers[h] EXCEPT !.conversation = conversation]
       IN IF ~conversation.exists
          THEN /\ SetHandler(h, Finish(rec, "compression_threw"))
               /\ UNCHANGED conv
          ELSE Update(h, [rec EXCEPT !.pc = "emg_update"],
                      [rolling_summary |->
                           emergencySummary(conversation.rolling_summary, truncated),
                       summary_version |->
                           nextSummaryVersion(conversation.summary_version)],
                      written)
    /\ UNCHANGED <<now, rateVars, parseVars, moreVars, bufVars, pendingBuffers, received, counters>>

\* emergencyCompress after its update: it threw, compressConversation
\* rethrows and handleMessage logs that compression failed; or clearBuffer,
\* and handleMessage tests the row it got back for insight detection
AfterEmgUpdate(h, gatePasses) ==
    /\ handlers[h].pc = "emg_update"
    /\ IF handlers[h].threw
       THEN /\ SetHandler(h, Finish(handlers[h], "compression_threw"))
            /\ UNCHANGED pendingBuffers
       ELSE /\ pendingBuffers' =
                   [pendingBuffers EXCEPT ![handlers[h].conversation.id] = EmptyPending]
            /\ SetHandler(h, DetectOrFinish(handlers[h], handlers[h].conversation,
                                            gatePasses))
    /\ UNCHANGED <<now, rateVars, parseVars, moreVars, bufVars, conv, received, counters>>

\* The guards of detectInsight on the row it read: the feature flag, the
\* notified flag, SignalGate.passes and the length of the summary
admittedMutant(conversation, gatePasses) ==
    /\ enableInsightDetection
    /\ ~conversation.notified
    /\ gatePasses
admitted(conversation, gatePasses) ==
    /\ enableInsightDetection
    /\ ~conversation.notified
    /\ gatePasses
    /\ ~(conversation.rolling_summary < MinSummaryLen)

\* detectInsight after getConversationById: no row returns null; otherwise
\* its guards, then Gemini
AfterDetGet(h, gatePasses, found) ==
    /\ handlers[h].pc = "det_get"
    /\ LET conversation == IF found THEN handlers[h].conversation
                            ELSE [NoRow EXCEPT !.id = handlers[h].conversation.id]
           rec == [handlers[h] EXCEPT !.conversation = conversation]
       IN IF ~conversation.exists
          THEN /\ SetHandler(h, Finish(rec, "not_found"))
               /\ UNCHANGED lastDetectStart
          ELSE IF ~admitted(conversation, gatePasses)
          THEN /\ SetHandler(h, Finish([rec EXCEPT !.gate = gatePasses], "no_insight"))
               /\ UNCHANGED lastDetectStart
          ELSE /\ SetHandler(h, [rec EXCEPT !.pc = "det_llm", !.gate = gatePasses])
               /\ lastDetectStart' = now
    /\ UNCHANGED <<now, rateVars, parseVars, moreVars, bufVars, conv, pendingBuffers, received,
                   posts, notifiedTransitions, notificationRecords, dbFaults>>

\* insightRepo.create: if (error) throw error, rethrown as a DatabaseError
createThrowsMutant(error) == FALSE
createThrows(error) == error

\* geminiClient.detectInsight returns a verdict and insightRepo.create is
\* issued, which inserts the row unless the database fails or the table
\* holds no conversation of that id by now (insights.conversation_id
\* references conversations); or Gemini throws, which
\* triggerInsightDetection logs
AfterDetLlm(h, ok, worthy, written) ==
    /\ handlers[h].pc = "det_llm"
    /\ IF ok
       THEN SetHandler(h, [handlers[h] EXCEPT !.pc = "det_insight", !.worthy = worthy,
                                              !.insight =
                                                  /\ written
                                                  /\ conv.exists
                                                  /\ conv.id = handlers[h].conversation.id])
       ELSE SetHandler(h, Finish(handlers[h], "error"))
    /\ UNCHANGED <<now, rateVars, parseVars, moreVars, bufVars, conv, pendingBuffers, received,
                   counters>>

\* detectInsight after insightRepo.create: a failed insert throws, which
\* triggerInsightDetection logs; otherwise the update of the LLM call time is
\* issued
AfterInsight(h, written) ==
    /\ handlers[h].pc = "det_insight"
    /\ IF createThrows(~handlers[h].insight)
       THEN /\ SetHandler(h, Finish(handlers[h], "error"))
            /\ UNCHANGED conv
       ELSE \* the row detectInsight read stays the one it returns
            /\ IF updated(handlers[h].conversation.id, written)
               THEN WriteRow([llm_last_called_at |-> now])
               ELSE UNCHANGED conv
            /\ SetHandler(h, [handlers[h] EXCEPT !.pc = "det_update",
                                   !.threw = ~updated(handlers[h].conversation.id, written)])
    /\ UNCHANGED <<now, rateVars, parseVars, moreVars, bufVars, pendingBuffers, received, counters>>

\* detectInsight after its update: it threw, which triggerInsightDetection
\* logs; or it returns the row it read and shouldNotify, and
\* triggerInsightDetection calls notify on it
AfterDetUpdate(h) ==
    /\ handlers[h].pc = "det_update"
    /\ IF handlers[h].threw
       THEN SetHandler(h, Finish(handlers[h], "error"))
       ELSE IF handlers[h].worthy /\ ~handlers[h].conversation.notified
       THEN SetHandler(h, EnterNotify(handlers[h]))
       ELSE SetHandler(h, Finish(handlers[h], "no_notify"))
    /\ UNCHANGED <<now, rateVars, parseVars, moreVars, bufVars, conv, pendingBuffers, received,
                   counters>>

\* notify(insight, conversation) called by itself, on a conversation object
\* whose notified flag is either value
NotifyCall(h, worthy, notified) ==
    /\ handlers[h].pc = "idle"
    /\ h = FreeHandler
    /\ received < MaxMessages
    /\ received' = received + 1
    /\ SetHandler(h, EnterNotify([IdleHandler EXCEPT !.kind = "notify", !.worthy = worthy,
                                     !.conversation = [conv EXCEPT !.notified = notified]]))
    /\ UNCHANGED <<now, rateVars, parseVars, moreVars, bufVars, conv, pendingBuffers, counters>>

\* postInChannel: a failed chat.postMessage is rethrown as a SlackAPIError
postThrowsMutant(failed) == FALSE
postThrows(failed) == failed

\* postInChannel returns and markAsNotified is issued, which writes the row
\* unless the database fails; or postInChannel throws
AfterPost(h, ok, written) ==
    /\ handlers[h].pc = "post"
    /\ posts' = IF ok THEN posts + 1 ELSE posts
    /\ IF postThrows(~ok)
       THEN /\ SetHandler(h, Finish(handlers[h], "error"))
            /\ UNCHANGED <<conv, notifiedTransitions>>
       ELSE /\ IF updated(handlers[h].conversation.id, written)
               THEN /\ WriteRow([notified |-> TRUE])
                    /\ notifiedTransitions' = IF conv.notified THEN notifiedTransitions
                                              ELSE notifiedTransitions + 1
               ELSE UNCHANGED <<conv, notifiedTransitions>>
            /\ SetHandler(h, [handlers[h] EXCEPT !.pc = "mark", !.posted = ok,
                                   !.marked = updated(handlers[h].conversation.id, written)])
    /\ UNCHANGED <<now, rateVars, parseVars, moreVars, bufVars, pendingBuffers, received,
                   notificationRecords, dbFaults, lastDetectStart>>

\* notify after markAsNotified: it threw, or notificationRepo.create is
\* issued, which inserts the Notification Record unless the database fails
\* or the table holds no conversation of that id by now
\* (notifications.conversation_id references conversations)
AfterMark(h, written) ==
    /\ handlers[h].pc = "mark"
    /\ IF ~handlers[h].marked
       THEN /\ SetHandler(h, Finish(handlers[h], "error"))
            /\ UNCHANGED notificationRecords
       ELSE LET inserted == /\ written
                            /\ conv.exists
                            /\ conv.id = handlers[h].conversation.id
            IN  /\ SetHandler(h, [handlers[h] EXCEPT !.pc = "record", !.recorded = inserted])
                /\ notificationRecords' = IF inserted THEN notificationRecords + 1
                                          ELSE notificationRecords
    /\ UNCHANGED <<now, rateVars, parseVars, moreVars, bufVars, conv, pendingBuffers, received,
                   posts, notifiedTransitions, dbFaults, lastDetectStart>>

\* notify returns success, or rethrows the DatabaseError of create
AfterRecord(h) ==
    /\ handlers[h].pc = "record"
    /\ SetHandler(h, Finish(handlers[h],
                            IF handlers[h].recorded THEN "success" ELSE "error"))
    /\ UNCHANGED <<now, rateVars, parseVars, moreVars, bufVars, conv, pendingBuffers, received,
                   counters>>

\* The handler's promise settles
HandlerReturn(h) ==
    /\ handlers[h].pc = "done"
    /\ SetHandler(h, IdleHandler)
    /\ UNCHANGED <<now, rateVars, parseVars, moreVars, bufVars, conv, pendingBuffers, received,
                   counters>>

\* conversationRepo.delete(id): the row of that id leaves the table, and
\* with it the insights and the Notification Records that reference it
\* (on delete cascade), unless the database fails; deleting an id the table
\* does not hold changes nothing. No code path of the program calls it: it
\* runs in SpecRepository only
delete(id, written) ==
    /\ IF written /\ conv.exists /\ conv.id = id
       THEN /\ conv' = [NoRow EXCEPT !.id = id]
            /\ notificationRecords' = 0
       ELSE UNCHANGED <<conv, notificationRecords>>
    /\ UNCHANGED <<now, rateVars, parseVars, moreVars, bufVars, pendingBuffers, handlers,
                   received, posts, notifiedTransitions, dbFaults, lastDetectStart>>

\* A minute passes
NotifyTick ==
    /\ now < MaxMinutes * MinuteMs
    /\ now' = now + MinuteMs
    /\ UNCHANGED <<rateVars, parseVars, moreVars, bufVars, notifyVars>>

MessageArrives ==
    \E h \in Handlers, noise \in BOOLEAN, words \in MessageWords : HandleMessage(h, noise, words)
NotifyCalled ==
    \E h \in Handlers, worthy \in BOOLEAN, notified \in BOOLEAN : NotifyCall(h, worthy, notified)
IngestStep ==
    \E h \in Handlers :
        \/ \E found \in WriteOutcomes, written \in WriteOutcomes : AfterFind(h, found, written)
        \/ \E written \in WriteOutcomes : AfterCreate(h, written)
        \/ \E gate \in BOOLEAN : AfterUpdate(h, gate)
CompressStep ==
    \E h \in Handlers, gate \in BOOLEAN :
        \/ \E found \in WriteOutcomes : AfterCmpGet(h, gate, found)
        \/ \E ok \in BOOLEAN, len \in SummaryLens, written \in WriteOutcomes :
               AfterCmpLlm(h, ok, len, written)
        \/ \E truncated \in TruncatedLens, found \in WriteOutcomes, written \in WriteOutcomes :
               AfterEmgGet(h, truncated, found, written)
        \/ AfterCmpUpdate(h, gate)
        \/ AfterEmgUpdate(h, gate)
DetectStep ==
    \E h \in Handlers :
        \/ \E gate \in BOOLEAN, found \in WriteOutcomes : AfterDetGet(h, gate, found)
        \/ \E ok \in BOOLEAN, worthy \in BOOLEAN, written \in WriteOutcomes :
               AfterDetLlm(h, ok, worthy, written)
        \/ \E written \in WriteOutcomes : AfterInsight(h, written)
        \/ AfterDetUpdate(h)
NotifyStep ==
    \E h \in Handlers :
        \/ \E ok \in BOOLEAN, written \in WriteOutcomes : AfterPost(h, ok, written)
        \/ \E written \in WriteOutcomes : AfterMark(h, written)
        \/ AfterRecord(h)
        \/ HandlerReturn(h)

(***************************************************************************)
(* SignalGate (services/signalGate.js), on the default thresholds          *)
(***************************************************************************)
minMessages == 8
minParticipants == 2
minAvgWords == 15
minTotalWords == 120
minDurationMinutes == 5
maxDurationHours == 6
minVelocityMsgPerHour == 1
maxVelocityMsgPerHour == 10
minAgeMinutes == 5
\* minBackAndForthRatio 0.25 and minUniquenessRatio 0.4, in hundredths
minBackAndForthRatioPct == 25
minUniquenessRatioPct == 40
Pct == 100
requiresQuestion == TRUE
HourMs == 3600000
\* Math.max(durationHours, 0.1), in milliseconds
MinVelocityWindowMs == 360000

\* rolling_summary by what checkContentQuality reads of it: its length,
\* whether it holds a '?', its number of words and of distinct words
NoSummary == [length |-> 0, hasQuestion |-> FALSE, words |-> 0, unique |-> 0]
Summaries == {NoSummary,
              [length |-> 60, hasQuestion |-> TRUE, words |-> 10, unique |-> 8],
              [length |-> 60, hasQuestion |-> TRUE, words |-> 10, unique |-> 3],
              [length |-> 60, hasQuestion |-> FALSE, words |-> 10, unique |-> 8]}

\* Conversation snapshots handed to the gate: window_started_at is 0,
\* last_activity a number of minutes later
GateMessageCounts == {0, 7, 8, 9, 40}
GateParticipants == {0, 1, 2, 3}
GateWordCounts == {0, 119, 120, 135, 600}
GateDurations == {0, 4, 5, 60, 361}
GateNows == {4, 5, 400}
GateSnapshots ==
    {s \in [message_count : GateMessageCounts, participants : GateParticipants,
            total_word_count : GateWordCounts, window_started_at : {0},
            last_activity : {d * MinuteMs : d \in GateDurations},
            rolling_summary : Summaries] :
        /\ s.participants <= s.message_count
        /\ s.message_count = 0 => s.total_word_count = 0}

checkVolumeRules(state) ==
    /\ state.message_count >= minMessages
    /\ state.participants >= minParticipants
    /\ state.message_count > 0
    /\ state.total_word_count >= minAvgWords * state.message_count
    /\ state.total_word_count >= minTotalWords

checkTemporalRules(state, t) ==
    LET durationMs == state.last_activity - state.window_started_at
        velocityWindowMs == Max(durationMs, MinVelocityWindowMs)
    IN IF durationMs < minDurationMinutes * MinuteMs THEN FALSE
       ELSE IF durationMs > maxDurationHours * HourMs THEN FALSE
       ELSE IF \/ state.message_count * HourMs < minVelocityMsgPerHour * velocityWindowMs
               \/ state.message_count * HourMs > maxVelocityMsgPerHour * velocityWindowMs
       THEN FALSE
       ELSE IF t - state.window_started_at < minAgeMinutes * MinuteMs THEN FALSE
       ELSE TRUE

checkEngagementRules(state) ==
    IF state.participants = 0 \/ state.message_count = 0 THEN FALSE
    ELSE state.participants * Pct >= minBackAndForthRatioPct * state.message_count

checkContentQuality(state) ==
    LET summary == state.rolling_summary
    IN IF requiresQuestion /\ ~summary.hasQuestion THEN FALSE
       ELSE IF summary.length > 0 /\ summary.unique * Pct < minUniquenessRatioPct * summary.words
       THEN FALSE
       ELSE TRUE

passes(state, t) ==
    /\ checkVolumeRules(state)
    /\ checkTemporalRules(state, t)
    /\ checkEngagementRules(state)
    /\ checkContentQuality(state)

NoVerdict == [state |-> CHOOSE s \in GateSnapshots : TRUE, passed |-> "none"]
Verdict(state, t) == [state |-> state, passed |-> IF passes(state, t) THEN "pass" ELSE "fail"]

GateIdle ==
    /\ gateState = NoVerdict.state
    /\ gateVerdict = NoVerdict
    /\ gatePrev = NoVerdict

\* SignalGate.passes is called on the snapshot
GateEvaluate ==
    /\ gateVerdict.passed = "none"
    /\ gateVerdict' = Verdict(gateState, now)
    /\ UNCHANGED <<gateState, gatePrev>>
    /\ UNCHANGED notGate

\* It is called again on a snapshot with equal-or-greater counts, the same
\* summary and the same timestamps
GateGrow ==
    /\ gateVerdict.passed # "none"
    /\ gatePrev.passed = "none"
    /\ \E bigger \in GateSnapshots :
           /\ bigger # gateState
           /\ bigger.message_count >= gateState.message_count
           /\ bigger.participants >= gateState.participants
           /\ bigger.total_word_count >= gateState.total_word_count
           /\ bigger.rolling_summary = gateState.rolling_summary
           /\ bigger.last_activity = gateState.last_activity
           /\ gateState' = bigger
           /\ gatePrev' = gateVerdict
           /\ gateVerdict' = Verdict(bigger, now)
    /\ UNCHANGED notGate

(***************************************************************************)
(* GeminiClient.makeRequest (llm/geminiClient.js): retries and backoff      *)
(***************************************************************************)
\* config.gemini.timeoutMs and the backoff Math.min(1000 * 2^attempt, 10000)
timeoutMs == 30000
BackoffBaseMs == 1000
BackoffCapMs == 10000
\* makeRequest calls made in one run
MaxCalls == 2
\* maxRetries as the callers pass it: 2, the default 3, and a configured 1
RetryChoices == {1, 2, 3}
Transient == {"error", "timeout"}

\* start: the number of slots the limiter had granted when the call began
IdleRequest == [pc |-> "idle", maxRetries |-> 0, attempt |-> 0, outcomes |-> <<>>,
                backoffs |-> <<>>, lastError |-> "none", result |-> "none", start |-> 0]

ReqIdle == req = IdleRequest /\ reqCalls = 0

\* error instanceof RateLimitError
isRateLimitErrorMutant(error) == FALSE
isRateLimitError(error) == error = "RateLimitError"

\* Math.min(1000 * Math.pow(2, attempt), 10000)
waitMs(attempt) == Min(BackoffBaseMs * 2 ^ attempt, BackoffCapMs)

\* the catch block of makeRequest for the error of this attempt, and the loop
\* head that follows it
catchError(r, error, outcome) ==
    LET failed == [r EXCEPT !.lastError = error,
                            !.outcomes = Append(@, outcome)]
    IN IF isRateLimitError(error)
       THEN [failed EXCEPT !.pc = "done", !.result = "RateLimitError"]
       ELSE IF r.attempt < r.maxRetries
       THEN [failed EXCEPT !.pc = "backoff",
                           !.backoffs = Append(@, waitMs(r.attempt))]
       ELSE [failed EXCEPT !.pc = "done", !.attempt = @ + 1, !.result = "LLMError"]

\* makeRequest(prompt, maxRetries) is called: attempt = 1
MakeRequest(maxRetries) ==
    /\ req.pc = "idle"
    /\ reqCalls < MaxCalls
    /\ req' = [IdleRequest EXCEPT !.pc = "attempt", !.maxRetries = maxRetries,
                                  !.attempt = 1, !.start = Len(granted)]
    /\ reqCalls' = reqCalls + 1
    /\ UNCHANGED <<now, rateVars, notReq>>

ReqStart == \E maxRetries \in RetryChoices : MakeRequest(maxRetries)

\* await this.rateLimiter.attempt(), then generateContent is issued
ReqAttempt ==
    /\ req.pc = "attempt"
    /\ Attempt("convA")
    /\ req' = IF lastAttempt'.status = "RateLimitError"
              THEN catchError(req, "RateLimitError", "rate")
              ELSE [req EXCEPT !.pc = "model"]
    /\ UNCHANGED <<now, reqCalls, notReq>>

\* the health check reads the limiter's stats while a request is under way
ReqGetStats ==
    /\ GetStats
    /\ UNCHANGED <<now, req, reqCalls, notReq>>

\* Promise.race settles: the response text, a model error, or the timeout
ReqModelReturns(outcome) ==
    /\ req.pc = "model"
    /\ now' = IF outcome = "timeout" THEN now + timeoutMs ELSE now
    /\ req' = IF outcome = "text"
              THEN [req EXCEPT !.pc = "done", !.result = "text",
                               !.outcomes = Append(@, "text")]
              ELSE catchError(req, outcome, outcome)
    /\ UNCHANGED <<reqCalls, rateVars, notReq>>

ReqModel == \E outcome \in Transient \cup {"text"} : ReqModelReturns(outcome)

\* the backoff timer fires and the loop goes on to the next attempt
ReqBackoffElapsed ==
    /\ req.pc = "backoff"
    /\ now' = now + req.backoffs[Len(req.backoffs)]
    /\ req' = [req EXCEPT !.pc = "attempt", !.attempt = @ + 1]
    /\ UNCHANGED <<reqCalls, rateVars, notReq>>

\* the caller takes the text or the error
ReqReturn ==
    /\ req.pc = "done"
    /\ req' = IdleRequest
    /\ UNCHANGED <<now, reqCalls, rateVars, notReq>>

ReqStep == ReqAttempt \/ ReqModel \/ ReqBackoffElapsed \/ ReqReturn

(***************************************************************************)
(* Response text: extractJSON, scoutAnalyze and parseInsightResponse on the *)
(* characters of the model's response                                       *)
(***************************************************************************)
\* A response is a sequence of lexical pieces: the braces, a member list
\* that says worthy ("w": "worthy": true / "isPostWorthy": true with a
\* confidence of 0.9 and full-length texts) or not worthy ("f"), prose that is
\* not JSON ("t"), and a code-fence marker ("m"). A brace
\* pair inside an object stands for a member whose value is an object.
Pieces == {"{", "}", "w", "f", "t", "m"}
MaxTextLen == 5
RECURSIVE SeqsUpTo(_, _)
SeqsUpTo(S, n) ==
    IF n = 0 THEN {<<>>}
    ELSE LET shorter == SeqsUpTo(S, n - 1)
         IN shorter \cup {Append(s, c) : s \in {x \in shorter : Len(x) = n - 1}, c \in S}
Texts == SeqsUpTo(Pieces, MaxTextLen)

NotFence(c) == c # "m"
\* the two text.replace calls that delete the code-fence markers
stripFences(s) == SelectSeq(s, NotFence)

\* text.indexOf(c): 1-based here, 0 for -1
indexOf(s, c) ==
    IF \E i \in 1..Len(s) : s[i] = c
    THEN CHOOSE i \in 1..Len(s) : s[i] = c /\ \A j \in 1..(i - 1) : s[j] # c
    ELSE 0
lastIndexOf(s, c) ==
    IF \E i \in 1..Len(s) : s[i] = c
    THEN CHOOSE i \in 1..Len(s) : s[i] = c /\ \A j \in (i + 1)..Len(s) : s[j] # c
    ELSE 0

\* the bracket-counting loop of extractJSON from index i on, braceCount being
\* the count before text[i]; the index where the count returns to zero, or 0
RECURSIVE scanBraces(_, _, _)
scanBraces(s, i, braceCount) ==
    IF i > Len(s) THEN 0
    ELSE LET opened == IF s[i] = "{" THEN braceCount + 1 ELSE braceCount
             closed == IF s[i] = "}" THEN opened - 1 ELSE opened
         IN IF closed = 0 THEN i ELSE scanBraces(s, i + 1, closed)

endIdxMutant(s, startIdx) == lastIndexOf(s, "}")
endIdx(s, startIdx) == scanBraces(s, startIdx, 0)

\* JSON.parse on a piece sequence: an object is a brace pair that closes at
\* the last piece and holds members and objects only
Depth(s, i) ==
    Cardinality({k \in 1..i : s[k] = "{"}) - Cardinality({k \in 1..i : s[k] = "}"})
IsObject(s) ==
    /\ Len(s) >= 2
    /\ s[1] = "{"
    /\ \A i \in 1..Len(s) : s[i] \in {"{", "}", "w", "f"}
    /\ \A i \in 1..(Len(s) - 1) : Depth(s, i) > 0
    /\ Depth(s, Len(s)) = 0
\* the worthy flag of the parsed object: the last top-level member decides
TopMembers(s) == {i \in 1..Len(s) : s[i] \in {"w", "f"} /\ Depth(s, i) = 1}
FlagOf(s) ==
    IF TopMembers(s) = {} THEN JUndef
    ELSE LET last == CHOOSE i \in TopMembers(s) : \A j \in TopMembers(s) : j <= i
         IN IF s[last] = "w" THEN JTrue ELSE JFalse
\* the parsed object: a member list carries the flag, a confidence of 0.9 and
\* the two full-length texts; with no top-level member list every key is missing
ObjectOf(flag) ==
    IF flag = JUndef
    THEN [valid |-> TRUE, isPostWorthy |-> JUndef, hasPostIdea |-> JUndef,
          worthy |-> JUndef, confidence |-> JUndef, coreInsight |-> -1,
          suggestedAngle |-> -1]
    ELSE [valid |-> TRUE, isPostWorthy |-> flag, hasPostIdea |-> flag, worthy |-> flag,
          confidence |-> JNum(9), coreInsight |-> MinCoreInsightLen,
          suggestedAngle |-> MinSuggestedAngleLen]
Unparsed ==
    [valid |-> FALSE, isPostWorthy |-> JUndef, hasPostIdea |-> JUndef, worthy |-> JUndef,
     confidence |-> JUndef, coreInsight |-> -1, suggestedAngle |-> -1]
\* JSON.parse(jsonStr) inside the try: the object, or the catch's fallback
jsonParse(jsonStr) == IF IsObject(jsonStr) THEN ObjectOf(FlagOf(jsonStr)) ELSE Unparsed

NoExtract == [called |-> FALSE, fallback |-> FALSE, jsonStr |-> <<>>, parsed |-> Unparsed]

\* extractJSON(response, fallback)
extractJSON(resp) ==
    LET stripped == stripFences(resp)
        startIdx == indexOf(stripped, "{")
        closeIdx == endIdx(stripped, startIdx)
    IN IF startIdx = 0 \/ closeIdx = 0
       THEN [called |-> TRUE, fallback |-> TRUE, jsonStr |-> <<>>, parsed |-> Unparsed]
       ELSE LET jsonStr == SubSeq(stripped, startIdx, closeIdx)
                parsed == jsonParse(jsonStr)
            IN [called |-> TRUE, fallback |-> ~parsed.valid, jsonStr |-> jsonStr,
                parsed |-> parsed]

\* jsonStr.match(/\{[\s\S]*\}/): greedy, from the first "{" to the last "}"
greedyMatch(s) ==
    LET first == indexOf(s, "{")
        last == lastIndexOf(s, "}")
    IN IF first # 0 /\ last > first THEN SubSeq(s, first, last) ELSE s

\* Both functions run inside a try whose catch returns the fallback and calls
\* nothing that can throw, so a call ends with a result.
NoOutcome == [called |-> FALSE, threw |-> FALSE, worthy |-> FALSE]
Outcome(result) == [called |-> TRUE, threw |-> FALSE, worthy |-> result.worthy]

TextIdle ==
    /\ text = <<>>
    /\ extracted = NoExtract
    /\ scoutOut = NoOutcome
    /\ insightOut = NoOutcome

ExtractJSON ==
    /\ extracted' = extractJSON(text)
    /\ UNCHANGED <<text, scoutOut, insightOut, notText>>

\* scoutAnalyze after makeRequest has returned the text
ScoutAnalyze ==
    /\ scoutOut' = Outcome(scoutParse(extractJSON(text).parsed))
    /\ UNCHANGED <<text, extracted, insightOut, notText>>

\* parseInsightResponse(response) on the text
ParseInsightText ==
    /\ insightOut' =
           Outcome(parseInsightResponse(jsonParse(greedyMatch(stripFences(text)))))
    /\ UNCHANGED <<text, extracted, scoutOut, notText>>

(***************************************************************************)
(* ConversationManager.processMessage and updateConversationState, on the  *)
(* full conversations row and the SignalGate rules                         *)
(***************************************************************************)
\* handleMessage calls in one run, and the last minute the clock reaches
MaxIngest == 3
IngestStartMinute == 60
MaxIngestMinutes == 62
Ingesters == {"m1", "m2"}
Users == {"u1", "u3"}
\* isNoise: wordCount < 3
MinNoiseWords == 3
\* wordCount and textForSummary of the envelopes MessageParser.parse makes:
\* wordCount counts the words of the raw text, textForSummary is the text
\* with links replaced by their label and code by a placeholder; the last
\* three are links labelled with the thumbs-up emoji and with two of the
\* mis-decoded texts that fillerPatterns stores, written by their code points
Envelopes ==
    {[wordCount |-> 5, textForSummary |-> <<"we", "should", "ship", "it", "today">>],
     [wordCount |-> 15, textForSummary |-> <<"the", "fix", "is", "[code block]">>],
     [wordCount |-> 5, textForSummary |-> <<"alice", "Uploaded", "a", "file", "today">>],
     [wordCount |-> 6, textForSummary |->
          <<"alice", "rejoined", "the", "channels", "just", "now">>],
     [wordCount |-> 1, textForSummary |-> <<"deploy">>],
     [wordCount |-> 1, textForSummary |-> <<"Thanks">>],
     [wordCount |-> 5, textForSummary |-> <<"got", "it">>],
     [wordCount |-> 3, textForSummary |-> <<"U+1F44D">>],
     [wordCount |-> 3, textForSummary |-> <<"U+00E2U+0153U+2026">>],
     [wordCount |-> 3, textForSummary |-> <<"U+00F0U+0178U+2018">>]}

\* A row one 15-word message short of the gate: window opened at 0, summary
\* with a question
AlmostPassingRow ==
    [message_count |-> 7, participant_ids |-> {"u1", "u2"}, total_word_count |-> 105,
     window_started_at |-> 0, last_activity |-> 30 * MinuteMs,
     rolling_summary |-> [length |-> 60, hasQuestion |-> TRUE, words |-> 10, unique |-> 8],
     gate_passed_at |-> 0]
NoPending == [count |-> 0, wordCount |-> 0]
IdleIngest == [pc |-> "idle", conversation |-> AlmostPassingRow, wordCount |-> 0,
               userId |-> "none", isBot |-> FALSE, result |-> "none", threw |-> FALSE]

IngestIdle ==
    /\ ingRow = AlmostPassingRow
    /\ ingCalls = [m \in Ingesters |-> IdleIngest]
    /\ ingPending = NoPending
    /\ ingReceived = 0

\* the state SignalGate reads: participant_ids by its length
gateView(state) ==
    [message_count |-> state.message_count,
     participants |-> Cardinality(state.participant_ids),
     total_word_count |-> state.total_word_count,
     window_started_at |-> state.window_started_at,
     last_activity |-> state.last_activity,
     rolling_summary |-> state.rolling_summary]

\* updatedState of updateConversationState
updatedState(conversation, userId, wordCount, t) ==
    [conversation EXCEPT !.participant_ids = @ \cup {userId},
                         !.message_count = @ + 1,
                         !.total_word_count = @ + wordCount,
                         !.last_activity = t]

\* gatePassedAt of updateConversationState; 0 is null
gatePassedAt(conversation, gatesPasses, t) ==
    IF gatesPasses /\ conversation.gate_passed_at = 0 THEN t
    ELSE conversation.gate_passed_at

\* the columns updateConversationState hands to conversationRepo.update
ingestUpdates(conversation, userId, wordCount, t) ==
    LET state == updatedState(conversation, userId, wordCount, t)
    IN [message_count |-> state.message_count,
        participant_ids |-> state.participant_ids,
        total_word_count |-> state.total_word_count,
        last_activity |-> t,
        gate_passed_at |-> gatePassedAt(conversation, passes(gateView(state), t), t)]

(* MessageParser.isNoise(text, wordCount). A text is the sequence of its     *)
(* words, one space between two of them.                                   *)
\* toLowerCase, on the words the envelopes are made of; the anchored
\* alternations of fillerPatterns, which the text is one of and nothing else:
\* the second alternation of the source is stored as mis-decoded text, eight
\* alternatives written here by their code points. No emoji equals one of
\* them; six hold a letter that toLowerCase changes (U+0178 becomes U+00FF),
\* so the lowered text never equals them, and the other two match a text
\* that is exactly that; text.includes(pattern), where the pattern may begin
\* inside a word and end inside one
isNoise(txt, wordCount) ==
    LET toLowerCase(w) ==
            CASE w = "Thanks" -> "thanks"
              [] w = "OK" -> "ok"
              [] w = "Uploaded" -> "uploaded"
              [] w = "U+00F0U+0178U+2018" -> "U+00F0U+00FFU+2018"
              [] OTHER -> w
        trimmedText == [i \in 1..Len(txt) |-> toLowerCase(txt[i])]
        fillerPatterns ==
            {<<"ok">>, <<"okay">>, <<"k">>, <<"kk">>, <<"got", "it">>, <<"thanks">>,
             <<"thank", "you">>, <<"ty">>, <<"np">>, <<"sure">>, <<"yep">>, <<"yeah">>,
             <<"nope">>, <<"lol">>, <<"haha">>, <<"lmao">>, <<"rofl">>}
            \cup {<<"U+00F0U+0178U+2018">>, <<"U+00F0U+0178U+2018U+0152">>,
                  <<"U+00E2U+0153U+2026">>, <<"U+00E2U+00A4U+00EFU+00B8">>,
                  <<"U+00F0U+0178U+2122">>, <<"U+00F0U+0178U+02DCU+0160">>,
                  <<"U+00F0U+0178U+02DCU+201E">>, <<"U+00F0U+0178U+017DU+2030">>}
            \cup {<<"cc">>, <<"fyi">>, <<"btw">>, <<"imo">>, <<"imho">>, <<"tbh">>, <<"afaik">>}
        metaPatterns ==
            {<<"joined", "the", "channel">>, <<"left", "the", "channel">>,
             <<"set", "the", "channel", "topic">>, <<"uploaded", "a", "file">>,
             <<"pinned", "a", "message">>, <<"changed", "the", "channel", "name">>}
        endsWith(w, v) ==
            w = v \/ <<w, v>> \in {<<"reuploaded", "uploaded">>, <<"rejoined", "joined">>}
        startsWith(w, v) ==
            w = v \/ <<w, v>> \in {<<"files", "file">>, <<"channels", "channel">>}
        includes(pattern) ==
            LET n == Len(pattern)
            IN \E i \in 1..(Len(trimmedText) - n + 1) :
                   /\ endsWith(trimmedText[i], pattern[1])
                   /\ startsWith(trimmedText[i + n - 1], pattern[n])
                   /\ \A j \in 2..(n - 1) : trimmedText[i + j - 1] = pattern[j]
    IN IF wordCount < MinNoiseWords THEN TRUE
       ELSE IF trimmedText \in fillerPatterns THEN TRUE
       ELSE IF \E pattern \in metaPatterns : includes(pattern) THEN TRUE
       ELSE FALSE

SetIngest(m, r) == ingCalls' = [ingCalls EXCEPT ![m] = r]
FreeIngester == CHOOSE m \in Ingesters : ingCalls[m].pc = "idle"

\* processMessage(messageEnvelope): a bot message returns null at once, and
\* so does noise; otherwise findOrCreate is issued and reads the row
ProcessMessage(m, isBot, userId, wordCount, textForSummary) ==
    /\ ingCalls[m].pc = "idle"
    /\ m = FreeIngester
    /\ ingReceived < MaxIngest
    /\ ingReceived' = ingReceived + 1
    /\ IF isBotMessage(isBot)
       THEN SetIngest(m, [IdleIngest EXCEPT !.pc = "done", !.isBot = TRUE,
                                            !.result = "null"])
       ELSE IF isNoise(textForSummary, wordCount)
       THEN SetIngest(m, [IdleIngest EXCEPT !.pc = "done", !.userId = userId,
                                            !.wordCount = wordCount, !.result = "null"])
       ELSE SetIngest(m, [IdleIngest EXCEPT !.pc = "find", !.conversation = ingRow,
                                            !.isBot = isBot,
                                            !.userId = userId, !.wordCount = wordCount])
    /\ UNCHANGED <<now, ingRow, ingPending, notIngest>>

IngestArrives ==
    \E m \in Ingesters, isBot \in BOOLEAN, userId \in Users, envelope \in Envelopes :
        ProcessMessage(m, isBot, userId, envelope.wordCount, envelope.textForSummary)

\* updateConversationState with the row findOrCreate returned: the update is
\* issued, which writes the row unless the database fails
IngestAfterFind(m, written) ==
    /\ ingCalls[m].pc = "find"
    /\ IF written
       THEN /\ ingRow' = conversationUpdate(ingRow,
                             ingestUpdates(ingCalls[m].conversation, ingCalls[m].userId,
                                           ingCalls[m].wordCount, now))
            /\ SetIngest(m, [ingCalls[m] EXCEPT !.pc = "update", !.conversation = ingRow'])
       ELSE /\ UNCHANGED ingRow
            /\ SetIngest(m, [ingCalls[m] EXCEPT !.pc = "update", !.threw = TRUE])
    /\ UNCHANGED <<now, ingPending, ingReceived, notIngest>>

\* processMessage after the update: it threw and processMessage rethrows; or
\* addToBuffer, and the result is returned
IngestAfterUpdate(m) ==
    /\ ingCalls[m].pc = "update"
    /\ IF ingCalls[m].threw
       THEN /\ UNCHANGED ingPending
            /\ SetIngest(m, [ingCalls[m] EXCEPT !.pc = "done", !.result = "error"])
       ELSE /\ ingPending' = addToBuffer(ingPending, ingCalls[m].wordCount)
            /\ SetIngest(m, [ingCalls[m] EXCEPT !.pc = "done", !.result = "updated"])
    /\ UNCHANGED <<now, ingRow, ingReceived, notIngest>>

IngestReturn(m) ==
    /\ ingCalls[m].pc = "done"
    /\ SetIngest(m, IdleIngest)
    /\ UNCHANGED <<now, ingRow, ingPending, ingReceived, notIngest>>

IngestStepOf ==
    \E m \in Ingesters :
        \/ \E written \in WriteOutcomes : IngestAfterFind(m, written)
        \/ IngestAfterUpdate(m)
        \/ IngestReturn(m)

IngestTick ==
    /\ now < MaxIngestMinutes * MinuteMs
    /\ now' = now + MinuteMs
    /\ UNCHANGED <<ingVars, notIngest>>

(***************************************************************************)
(* SummaryCompressor.compressConversation and emergencyCompress on the     *)
(* words of the summary and the lines of the pending buffer, one call at a *)
(* time                                                                    *)
(***************************************************************************)
\* config.summaryCompression.maxSummaryWords; slice(-10); the two words of
\* the "[Recent messages]:" marker
maxSummaryWords == 250
KeepLines == 10
MarkerWords == 2
\* lines added to the pending buffer, lines of at most 50 characters among
\* them, and compressConversation calls in one run; words of a line of more
\* than 50 characters
MaxLines == 12
MaxShortLines == 2
MaxCompressions == 2
LongLineWords == 12
\* words of the response Gemini returns to compressSummary
ResponseWords == {100, 250, 251}

\* A summary: the words of its generated part, the markers and the buffer
\* lines emergency compression appended after it. The empty string has none.
EmptySummary == [generated |-> 0, markers |-> 0, lines |-> <<>>]
IsEmptySummary(summary) == summary = EmptySummary
\* text.split(/\s+/).length: the words of the text, and one for the empty
\* string, which splits into one empty piece
SummaryWords(summary) ==
    IF IsEmptySummary(summary) THEN 1
    ELSE summary.generated + MarkerWords * summary.markers
             + LongLineWords * Len(summary.lines)

FreshRow == [rolling_summary |-> EmptySummary, summary_version |-> FirstSummaryVersion]
NoLines == [lines |-> <<>>, count |-> 0]
\* given: how many lines the pending buffer held when its text was handed to
\* compressSummary, or later to emergencyCompress
IdleCompress == [pc |-> "idle", conversation |-> FreshRow, before |-> FreshRow,
                 kind |-> "none", response |-> 0, truncated |-> <<>>, result |-> "none",
                 given |-> 0, threw |-> FALSE]

CompressIdle ==
    /\ cmpRow = FreshRow
    /\ cmpPending = NoLines
    /\ cmpCall = IdleCompress
    /\ cmpCalls = 0
    /\ cmpAdded = [lines |-> 0, short |-> 0]

\* compressSummary's return: the response cut to maxSummaryWords words
mergedSummary(words) ==
    [generated |-> Min(words, maxSummaryWords), markers |-> 0, lines |-> <<>>]

\* lines.filter(line => line.length > 50)
IsLong(line) == line.long
\* lines.slice(-10)
lastLinesMutant(lines) == SubSeq(lines, 1, Min(KeepLines, Len(lines)))
lastLines(lines) == JsSlice(lines, -KeepLines)
\* truncated of emergencyCompress, by the ids of the lines kept
truncatedLines(buffer) ==
    LET kept == lastLines(SelectSeq(buffer.lines, IsLong))
    IN [i \in 1..Len(kept) |-> kept[i].id]

\* emergencySummary of emergencyCompress
emergencyText(rolling_summary, truncated) ==
    IF ~IsEmptySummary(rolling_summary)
    THEN [rolling_summary EXCEPT !.markers = @ + 1, !.lines = @ \o truncated]
    ELSE [generated |-> 0, markers |-> 0, lines |-> truncated]

\* addToBuffer appends one line to the pending buffer
CmpMessage(long) ==
    /\ cmpAdded.lines < MaxLines
    /\ long \/ cmpAdded.short < MaxShortLines
    /\ cmpAdded' = [lines |-> cmpAdded.lines + 1,
                    short |-> cmpAdded.short + (IF long THEN 0 ELSE 1)]
    /\ cmpPending' = [lines |-> Append(cmpPending.lines,
                                       [id |-> cmpAdded.lines + 1, long |-> long]),
                      count |-> cmpPending.count + 1]
    /\ UNCHANGED <<now, cmpRow, cmpCall, cmpCalls, notCompress>>

CmpMessageArrives == \E long \in BOOLEAN : CmpMessage(long)

\* compressConversation(conversationId) is called: getConversationById is issued
CompressConversation ==
    /\ cmpCall.pc = "idle"
    /\ cmpCalls < MaxCompressions
    /\ cmpCalls' = cmpCalls + 1
    /\ cmpCall' = [IdleCompress EXCEPT !.pc = "get", !.conversation = cmpRow,
                                       !.before = cmpRow]
    /\ UNCHANGED <<now, cmpRow, cmpPending, cmpAdded, notCompress>>

\* after getConversationById: nothing pending returns the row; otherwise
\* compressSummary is called
CmpAfterGet ==
    /\ cmpCall.pc = "get"
    /\ cmpCall' = IF cmpPending.count = 0
                  THEN [cmpCall EXCEPT !.pc = "done", !.result = "unchanged"]
                  ELSE [cmpCall EXCEPT !.pc = "llm", !.given = Len(cmpPending.lines)]
    /\ UNCHANGED <<now, cmpRow, cmpPending, cmpCalls, cmpAdded, notCompress>>

\* emergencyCompress up to its await: nothing pending returns null; otherwise
\* it takes the pending buffer and issues getConversationById
cmpEmergency(call) ==
    IF cmpPending.count = 0
    THEN [call EXCEPT !.pc = "done", !.kind = "emergency", !.result = "null",
                      !.threw = FALSE]
    ELSE [call EXCEPT !.pc = "emg_get", !.kind = "emergency", !.threw = FALSE,
                      !.given = Len(cmpPending.lines),
                      !.truncated = truncatedLines(cmpPending),
                      !.conversation = cmpRow,
                      !.before = cmpRow]

\* compressSummary returns and the update is issued, which writes the row
\* unless the database fails; or it throws and the catch runs emergencyCompress
CmpAfterLlm(ok, words, written) ==
    /\ cmpCall.pc = "llm"
    /\ IF ok
       THEN /\ IF written
               THEN cmpRow' = conversationUpdate(cmpRow,
                                  [rolling_summary |-> mergedSummary(words),
                                   summary_version |->
                                       nextSummaryVersion(cmpCall.conversation.summary_version)])
               ELSE UNCHANGED cmpRow
            /\ cmpCall' = [cmpCall EXCEPT !.pc = "update", !.kind = "generative",
                                          !.response = words, !.threw = ~written]
       ELSE /\ UNCHANGED cmpRow
            /\ cmpCall' = cmpEmergency(cmpCall)
    /\ UNCHANGED <<now, cmpPending, cmpCalls, cmpAdded, notCompress>>

CmpLlmReturns ==
    \E ok \in BOOLEAN, words \in ResponseWords, written \in WriteOutcomes :
        CmpAfterLlm(ok, words, written)

\* emergencyCompress after getConversationById: the update is issued
CmpAfterEmgGet(written) ==
    /\ cmpCall.pc = "emg_get"
    /\ IF written
       THEN cmpRow' = conversationUpdate(cmpRow,
                          [rolling_summary |->
                               emergencyText(cmpCall.conversation.rolling_summary,
                                             cmpCall.truncated),
                           summary_version |->
                               nextSummaryVersion(cmpCall.conversation.summary_version)])
       ELSE UNCHANGED cmpRow
    /\ cmpCall' = [cmpCall EXCEPT !.pc = "update", !.threw = ~written]
    /\ UNCHANGED <<now, cmpPending, cmpCalls, cmpAdded, notCompress>>

CmpEmgGetReturns == \E written \in WriteOutcomes : CmpAfterEmgGet(written)

\* either compression after its update: clearBuffer, and the updated row is
\* returned; an update of compressConversation that threw leads to
\* emergencyCompress, one of emergencyCompress that threw is rethrown
CmpAfterUpdate ==
    /\ cmpCall.pc = "update"
    /\ IF ~cmpCall.threw
       THEN /\ cmpPending' = NoLines
            /\ cmpCall' = [cmpCall EXCEPT !.pc = "done", !.result = "updated",
                                          !.conversation = cmpRow]
       ELSE /\ UNCHANGED cmpPending
            /\ cmpCall' = IF cmpCall.kind = "generative"
                          THEN cmpEmergency(cmpCall)
                          ELSE [cmpCall EXCEPT !.pc = "done", !.result = "threw"]
    /\ UNCHANGED <<now, cmpRow, cmpCalls, cmpAdded, notCompress>>

CmpReturn ==
    /\ cmpCall.pc = "done"
    /\ cmpCall' = IdleCompress
    /\ UNCHANGED <<now, cmpRow, cmpPending, cmpCalls, cmpAdded, notCompress>>

(***************************************************************************)
(* Specifications                                                          *)
(***************************************************************************)
\* The analyzer is the default path of handleMessage
RouteIdle == useSimpleAnalyzer = TRUE
\* Redis answers every command; no signal has arrived
StoreIdle == redisFaults = FALSE /\ shutdownPc = "running"
MoreIdle ==
    /\ GateIdle /\ ReqIdle /\ TextIdle /\ IngestIdle /\ CompressIdle /\ RouteIdle
    /\ StoreIdle

ParseIdle ==
    /\ response = CHOOSE r \in Responses : TRUE
    /\ insightResult = NoResult
    /\ postIdeaResult = NoResult
    /\ scoutResult = NoResult

BufferIdle ==
    /\ seqMode = TRUE
    /\ dryRunMode = FALSE
    /\ redisOn = FALSE
    /\ BufferInit

InitRate == now = StartNow /\ RateInit /\ MoreIdle /\ ParseIdle /\ BufferIdle /\ NotifyInit
NextRate == RateAttempt \/ RateGetStats \/ RateTick
SpecRate == InitRate /\ [][NextRate]_vars

\* The rate limiter from DailyStartBeforeMidnightMs before midnight, built as
\* in SpecRate
InitDaily ==
    /\ now = DayMs - DailyStartBeforeMidnightMs
    /\ RateInit /\ MoreIdle /\ ParseIdle /\ BufferIdle /\ NotifyInit
SpecDaily == InitDaily /\ [][NextRate]_vars

InitParse == now = 0 /\ RateInit /\ MoreIdle /\ ParseInit /\ BufferIdle /\ NotifyInit
NextParse == ParseInsight \/ ParsePostIdea \/ ParseScout
SpecParse == InitParse /\ [][NextParse]_vars

\* The buffer with handlers that run one at a time, on either store
InitBufferSeq ==
    /\ now = 0 /\ RateInit /\ MoreIdle /\ ParseIdle
    /\ seqMode = TRUE
    /\ dryRunMode \in BOOLEAN
    /\ redisOn \in BOOLEAN
    /\ BufferInit
    /\ NotifyInit
NextBuffer ==
    \/ ReceiveMessage
    \/ ReceiveBotMessage
    \/ SilenceTimerFires
    \/ BufStep
    \/ BufTick
    \/ KeyExpires
SpecBufferSeq == InitBufferSeq /\ [][NextBuffer]_vars
\* The same runs when the event loop keeps running: a continuation that is
\* ready runs, time passes while a timer is pending, a timer that is due fires
SpecBufferFair ==
    /\ InitBufferSeq
    /\ [][NextBuffer]_vars
    /\ WF_vars(BufStep)
    /\ WF_vars(BufTick)
    /\ WF_vars(SilenceTimerFires)

\* The buffer with overlapping handlers; the store is Redis, whose commands
\* are network round trips
InitBuffer ==
    /\ now = 0 /\ RateInit /\ MoreIdle /\ ParseIdle
    /\ seqMode = FALSE
    /\ dryRunMode \in BOOLEAN
    /\ redisOn = TRUE
    /\ BufferInit
    /\ NotifyInit
SpecBuffer == InitBuffer /\ [][NextBuffer]_vars

\* The buffer on a Redis whose commands may fail, handlers one at a time
InitStore ==
    /\ now = 0 /\ RateInit /\ ParseIdle
    /\ GateIdle /\ ReqIdle /\ TextIdle /\ IngestIdle /\ CompressIdle /\ RouteIdle
    /\ redisFaults = TRUE /\ shutdownPc = "running"
    /\ seqMode = TRUE
    /\ dryRunMode = FALSE
    /\ redisOn = TRUE
    /\ BufferInit
    /\ NotifyInit
SpecStore == InitStore /\ [][NextBuffer]_vars

\* The analyzer in a process that receives SIGTERM or SIGINT: the handler
\* clears the health check interval, stops the LifecycleManager, awaits
\* app.stop() and exits. Timers and handlers run until the process exits.
Signal ==
    /\ shutdownPc = "running"
    /\ shutdownPc' = "stopping"
    /\ UNCHANGED <<now, rateVars, parseVars, bufVars, notifyVars, gateVars, reqVars,
                   textVars, ingVars, cmpVars, useSimpleAnalyzer, redisFaults>>
ProcessExit ==
    /\ shutdownPc = "stopping"
    /\ shutdownPc' = "exited"
    /\ UNCHANGED <<now, rateVars, parseVars, bufVars, notifyVars, gateVars, reqVars,
                   textVars, ingVars, cmpVars, useSimpleAnalyzer, redisFaults>>
InitShutdown == InitBufferSeq
NextShutdown ==
    \/ shutdownPc # "exited" /\ NextBuffer
    \/ Signal
    \/ ProcessExit
SpecShutdown == InitShutdown /\ [][NextShutdown]_vars

\* HybridBufferAnalyzer.shutdown(): clearTimeout on every silence timer, and
\* the table of silence timers is emptied. The method is synchronous, so it
\* runs between two steps of the handlers in flight. Nothing in the program
\* calls it (the signal handlers above do not): it runs in SpecAnalyzer only
shutdown ==
    /\ timers' = clearTimeout(timers, silenceTimers)
    /\ silenceTimers' = 0
    /\ UNCHANGED <<now, rateVars, parseVars, moreVars, notifyVars, seqMode, dryRunMode, redisOn,
                   redisBuf, localBuffers, stats, procs, nextEvent, arrivals, lastTrigger,
                   idleFor>>
\* The analyzer with a caller of shutdown()
InitAnalyzer == InitBufferSeq
NextAnalyzer ==
    \/ NextBuffer
    \/ shutdown
SpecAnalyzer == InitAnalyzer /\ [][NextAnalyzer]_vars

\* The legacy pipeline: message handlers that overlap, on one Conversation
InitNotify ==
    /\ now = MinuteMs /\ RateInit /\ MoreIdle /\ ParseIdle
    /\ seqMode = FALSE
    /\ dryRunMode \in BOOLEAN
    /\ redisOn = FALSE
    /\ BufferInit
    /\ conv \in {NoRow, SummarisedRow}
    /\ dbFaults = FALSE
    /\ NotifyRest
NextNotify ==
    \/ MessageArrives
    \/ IngestStep
    \/ CompressStep
    \/ DetectStep
    \/ NotifyStep
    \/ NotifyTick
SpecNotify == InitNotify /\ [][NextNotify]_vars

\* The legacy pipeline and the repository operation that nothing in the
\* program calls: the row may be deleted at any time, with handlers in flight
InitRepository ==
    /\ now = MinuteMs /\ RateInit /\ MoreIdle /\ ParseIdle
    /\ seqMode = FALSE
    /\ dryRunMode = FALSE
    /\ redisOn = FALSE
    /\ BufferInit
    /\ conv \in {NoRow, SummarisedRow}
    /\ dbFaults = FALSE
    /\ NotifyRest
NextRepository ==
    \/ NextNotify
    \/ \E id \in ConversationIds, written \in WriteOutcomes : delete(id, written)
SpecRepository == InitRepository /\ [][NextRepository]_vars

\* Both pipelines, each with a database that may fail: handleMessage runs the
\* analyzer when config.features.useSimpleAnalyzer is set, the legacy path
\* otherwise
InitLegacy ==
    /\ now = MinuteMs /\ RateInit /\ ParseIdle
    /\ GateIdle /\ ReqIdle /\ TextIdle /\ IngestIdle /\ CompressIdle /\ StoreIdle
    /\ useSimpleAnalyzer = FALSE
    /\ seqMode = FALSE
    /\ dryRunMode \in BOOLEAN
    /\ redisOn = FALSE
    /\ BufferInit
    /\ conv \in {NoRow, SummarisedRow}
    /\ dbFaults = TRUE
    /\ NotifyRest
InitPipeline == InitBufferSeq \/ InitLegacy
NextPipeline ==
    \/ useSimpleAnalyzer /\ NextBuffer
    \/ ~useSimpleAnalyzer /\ NextNotify
SpecPipeline == InitPipeline /\ [][NextPipeline]_vars

\* The Notifier by itself: notify calls that overlap, on a Conversation that
\* has or has not been notified
InitNotifier ==
    /\ now = MinuteMs /\ RateInit /\ MoreIdle /\ ParseIdle
    /\ seqMode = FALSE
    /\ dryRunMode \in BOOLEAN
    /\ redisOn = FALSE
    /\ BufferInit
    /\ conv \in {SummarisedRow, [SummarisedRow EXCEPT !.notified = TRUE]}
    /\ dbFaults \in BOOLEAN
    /\ NotifyRest
NextNotifier ==
    \/ NotifyCalled
    \/ NotifyStep
SpecNotifier == InitNotifier /\ [][NextNotifier]_vars

\* SignalGate.passes on a snapshot, then on a snapshot that grew
InitGate ==
    /\ now \in {m * MinuteMs : m \in GateNows}
    /\ RateInit /\ ParseIdle /\ BufferIdle /\ NotifyInit /\ ReqIdle /\ TextIdle /\ IngestIdle
    /\ CompressIdle /\ RouteIdle /\ StoreIdle
    /\ gateState \in GateSnapshots
    /\ now >= gateState.last_activity
    /\ gateVerdict = NoVerdict
    /\ gatePrev = NoVerdict
NextGate == GateEvaluate \/ GateGrow
SpecGate == InitGate /\ [][NextGate]_vars

\* Every timer fires and every promise of makeRequest settles (Promise.race
\* with the timeout), so a step of a call in progress that stays enabled is
\* taken.
InitRequest == InitRate
NextRequest ==
    ReqStart \/ ReqAttempt \/ ReqModel \/ ReqBackoffElapsed \/ ReqReturn \/ ReqGetStats
SpecRequest == InitRequest /\ [][NextRequest]_vars /\ WF_vars(ReqStep)

InitText ==
    /\ now = 0
    /\ RateInit /\ ParseIdle /\ BufferIdle /\ NotifyInit /\ GateIdle /\ ReqIdle /\ IngestIdle
    /\ CompressIdle /\ RouteIdle /\ StoreIdle
    /\ text \in Texts
    /\ extracted = NoExtract
    /\ scoutOut = NoOutcome
    /\ insightOut = NoOutcome
NextText == ExtractJSON \/ ScoutAnalyze \/ ParseInsightText
SpecText == InitText /\ [][NextText]_vars

\* processMessage calls that overlap, on one Conversation
InitIngest ==
    /\ now = IngestStartMinute * MinuteMs
    /\ RateInit /\ ParseIdle /\ BufferIdle /\ NotifyInit
    /\ GateIdle /\ ReqIdle /\ TextIdle /\ IngestIdle /\ CompressIdle
    /\ useSimpleAnalyzer = FALSE /\ StoreIdle
NextIngest == IngestArrives \/ IngestStepOf \/ IngestTick
SpecIngest == InitIngest /\ [][NextIngest]_vars

\* compressConversation calls one after the other, lines arriving at any time
InitCompress ==
    /\ now = 0
    /\ RateInit /\ ParseIdle /\ BufferIdle /\ NotifyInit
    /\ GateIdle /\ ReqIdle /\ TextIdle /\ IngestIdle /\ CompressIdle
    /\ useSimpleAnalyzer = FALSE /\ StoreIdle
NextCompress ==
    \/ CmpMessageArrives
    \/ CompressConversation
    \/ CmpAfterGet
    \/ CmpLlmReturns
    \/ CmpEmgGetReturns
    \/ CmpAfterUpdate
    \/ CmpReturn
SpecCompress == InitCompress /\ [][NextCompress]_vars

\* handleMessage hands every message event to the analyzer when
\* config.features.useSimpleAnalyzer is set, to the ConversationManager
\* otherwise
InitEvents == InitBuffer \/ InitIngest
NextEvents ==
    \/ useSimpleAnalyzer /\ NextBuffer
    \/ ~useSimpleAnalyzer /\ NextIngest
SpecEvents == InitEvents /\ [][NextEvents]_vars

(***************************************************************************)
(* Claims                                                                  *)
(***************************************************************************)
\* The attempts granted in the 60 seconds that start at the i-th grant
GrantedInMinuteFrom(i) ==
    {j \in 1..Len(granted) :
        /\ granted[j][1] >= granted[i][1]
        /\ granted[j][1] < granted[i][1] + OneMinuteMs}

\* C1: exactly-once notification. Over the message handlers of one
\* Conversation, however they interleave, at most one message is posted to the
\* channel and notified goes from false to true at most once.
C1_ExactlyOnceNotification ==
    /\ posts <= 1
    /\ notifiedTransitions <= 1

\* C11: gate monotonicity. When SignalGate.passes was true for a snapshot, it
\* is true for a snapshot with equal-or-greater message count, participant
\* count and total word count, the same rolling summary and the same
\* timestamps.
C11_GateMonotone ==
    (gatePrev.passed = "pass" /\ gateVerdict.passed # "none") => gateVerdict.passed = "pass"

\* C2: the notified flag is monotonic. No step of ingestion, compression,
\* insight detection or notify takes the row from notified = true back to
\* notified = false.
C2_NotifiedMonotonic == [][conv.notified => conv'.notified]_vars
C2_Witness ==
    /\ conv.notified
    /\ posts >= 1
    /\ \E h \in Handlers :
           /\ handlers[h].kind = "message"
           /\ handlers[h].pc = "update"
           /\ handlers[h].conversation.notified
           /\ handlers[h].conversation.message_count >= 2

InPipeline == {"scout", "author", "chain", "post", "log", "done"}
Closed(p, trigger) ==
    /\ procs[p].trigger = trigger
    /\ procs[p].batch # <<>>
    /\ procs[p].pc \in InPipeline \cup {"pb_close"}
PendingTimers == {h \in 1..Len(timers) : timers[h].state = "pending"}
CancelledTimers == {h \in 1..Len(timers) : timers[h].state = "cancelled"}
IsIngest(i) == ~arrivals[i]

\* C3: overlap correctness. Once a volume trigger (processBatch 'max_cap') has
\* truncated the window, and until its handler has returned, the stored window
\* of the key is exactly the last overlapSize events of the window the
\* trigger fired on, in their original order.
C3_OverlapCorrectness ==
    \A p \in Procs :
        Closed(p, "max_cap") =>
            LET w == WindowOf(getBuffer)
                pre == procs[p].buffer
            IN /\ Len(w) = Min(overlapSize, Len(pre))
               /\ \A i \in 1..Len(w) : w[i] = pre[Len(pre) - Len(w) + i]
C3_Witness ==
    \E p \in Procs :
        /\ Closed(p, "max_cap")
        /\ procs[p].pc = "done"
        /\ Len(procs[p].buffer) = maxBatchSize
        /\ Len(WindowOf(getBuffer)) = overlapSize
        /\ redisOn

\* C4: silence-clear correctness. Once a silence trigger (processBatch
\* 'silence') on a non-empty window has cleared the key, getBuffer reads back
\* the empty window: while its handler runs on, and in the processMessage
\* call of the next event.
C4_SilenceClear ==
    \A p \in Procs :
        /\ Closed(p, "silence") => WindowOf(getBuffer) = <<>>
        /\ ( /\ procs[p].pc = "pm_get"
             /\ lastTrigger.type = "silence"
             /\ lastTrigger.last = PrevIngest(procs[p].ev) )
           => WindowOf(procs[p].got) = <<>>
C4_Witness ==
    \E p \in Procs :
        /\ Closed(p, "silence")
        /\ procs[p].pc = "done"
        /\ Len(procs[p].batch) >= 2
        /\ getBuffer = NoBuffer
        /\ ~redisOn

\* C5: debounce correctness. A silence trigger fires only when the quiet period
\* silenceTimeoutMs has passed since the last event, its timer is the one that
\* event armed, and its batch ends with that event; so no trigger falls
\* between two events less than the quiet period apart. While the last event
\* waits for its trigger exactly one timer is pending, and it is due
\* silenceTimeoutMs after that event.
C5_Debounce ==
    /\ lastTrigger.type = "silence" =>
           /\ lastTrigger.idle = silenceTimeoutMs
           /\ lastTrigger.ev = lastTrigger.last
           /\ lastTrigger.batch[Len(lastTrigger.batch)] = lastTrigger.last
    /\ Cardinality(PendingTimers) <= 1
    /\ (AllIdle /\ LastIngest # 0 /\ lastTrigger.last # LastIngest) =>
           /\ PendingTimers = {silenceTimers}
           /\ timers[silenceTimers].ev = LastIngest
           /\ timers[silenceTimers].left + idleFor = silenceTimeoutMs
C5_Witness ==
    /\ lastTrigger.type = "silence"
    /\ Len(lastTrigger.batch) >= 2
    /\ Len(lastTrigger.batch) < maxBatchSize
    /\ lastTrigger.idle = silenceTimeoutMs
    /\ stats.silenceTriggers = 1
    /\ stats.volumeTriggers = 0
    /\ CancelledTimers # {}
    /\ AllIdle

\* C12: single-flight silence timer. In every reachable state, handlers
\* overlapping or not, at most one silence timer is pending, the pending timer
\* is the one registered in silenceTimers, and no timer armed before a later
\* one is still pending: a superseded timer was cancelled (or had fired
\* already) when its successor was armed, so it can never fire afterwards.
C12_SingleFlightTimer ==
    /\ Cardinality(PendingTimers) <= 1
    /\ PendingTimers \subseteq {silenceTimers}
    /\ \A h \in 1..Len(timers) : \A k \in 1..Len(timers) :
           h < k => timers[h].state # "pending"
C12_Witness ==
    /\ ~seqMode
    /\ ~AllIdle
    /\ Len(timers) >= 2
    /\ timers[1].state = "cancelled"
    /\ timers[Len(timers)].state = "pending"
    /\ silenceTimers = Len(timers)

\* C13: empty-window no-op. When a trigger (volume or silence) runs
\* processBatch and the window it read is empty, the step that handles the read
\* ends the call with null and leaves the stored window, the batch and trigger
\* counters and the trigger log unchanged, and the call goes nowhere but back
\* to its caller: the analysis pipeline is not entered.
EmptyRead(p) == procs[p].trigger # "none" /\ WindowOf(procs[p].got) = <<>>
C13_EmptyWindowNoOp ==
    [][\A p \in Procs :
          /\ (EmptyRead(p) /\ procs[p].pc = "pb_get" /\ procs'[p].pc # "pb_get") =>
                 /\ procs'[p].pc = "done"
                 /\ procs'[p].result = "null"
                 /\ UNCHANGED <<redisBuf, localBuffers, stats, lastTrigger>>
          /\ (EmptyRead(p) /\ procs[p].pc = "done") =>
                 procs'[p].pc \in {"done", "idle"}]_vars
C13_Witness ==
    \E p \in Procs :
        /\ procs[p].trigger = "silence"
        /\ WindowOf(procs[p].got) = <<>>
        /\ procs[p].pc = "done"
        /\ procs[p].result = "null"
        /\ stats.batchesProcessed >= 1

\* C14: retry policy of makeRequest. A call makes at most maxRetries attempts;
\* every attempt but the last ended in a transient failure (model error or
\* timeout) and was followed by one backoff of min(1000 * 2^attempt, 10000) ms;
\* the call ends with the text of its last attempt, with the RateLimitError of
\* its last attempt (no backoff and no attempt after it), or with an LLMError
\* after maxRetries transient failures; and every call that has started ends.
AttemptsMade == Len(req.outcomes) + (IF req.pc = "model" THEN 1 ELSE 0)
RetryPolicy ==
    /\ AttemptsMade <= req.maxRetries
    /\ req.pc \in {"attempt", "model", "backoff"} => req.attempt <= req.maxRetries
    /\ \A i \in 1..Len(req.outcomes) - 1 : req.outcomes[i] \in Transient
    /\ \A i \in 1..Len(req.backoffs) :
           /\ i < req.maxRetries
           /\ req.outcomes[i] \in Transient
           /\ req.backoffs[i] = waitMs(i)
    /\ req.pc = "backoff" => Len(req.backoffs) = Len(req.outcomes)
    /\ req.pc = "done" =>
           LET n == Len(req.outcomes)
           IN /\ n >= 1
              /\ Len(req.backoffs) = n - 1
              /\ req.result \in {"text", "RateLimitError", "LLMError"}
              /\ req.result = "text" <=> req.outcomes[n] = "text"
              /\ req.result = "RateLimitError" <=> req.outcomes[n] = "rate"
              /\ req.result = "LLMError" <=>
                     (req.outcomes[n] \in Transient /\ n = req.maxRetries)
C14_RetryPolicy ==
    /\ []RetryPolicy
    /\ (req.pc # "idle") ~> (req.pc = "done")
C14_Witness ==
    /\ req.pc = "done"
    /\ req.result = "RateLimitError"
    /\ req.maxRetries = 3
    /\ req.outcomes = <<"error", "timeout", "rate">>
    /\ req.backoffs = <<2000, 4000>>

\* C15: degrade, not fail. For every response text (unparsable, with
\* unbalanced braces or with no brace at all included) scoutAnalyze and
\* parseInsightResponse return a result and do not throw; and when no piece
\* of the text, fences removed, parses as an object, the result is not worthy.
Stripped == stripFences(text)
SomeObject ==
    \E i \in 1..Len(Stripped) : \E j \in i..Len(Stripped) :
        IsObject(SubSeq(Stripped, i, j))
C15_DegradeNotFail ==
    /\ scoutOut.called => (~scoutOut.threw /\ (~SomeObject => ~scoutOut.worthy))
    /\ insightOut.called => (~insightOut.threw /\ (~SomeObject => ~insightOut.worthy))
C15_Witness ==
    /\ scoutOut.called /\ insightOut.called
    /\ ~scoutOut.worthy /\ ~insightOut.worthy
    /\ text = <<"t", "{", "w", "t", "}">>

\* C16: best-effort extraction. For a response with at least one "{",
\* extractJSON hands JSON.parse exactly the substring (of the text without its
\* fence markers) from the first "{" to the first later "}" at which the
\* count of "{" minus "}" from that first brace on is zero, and returns what
\* it parses to; when there is no such "}" it returns the fallback.
FirstOpen == CHOOSE i \in 1..Len(Stripped) :
                 Stripped[i] = "{" /\ \A j \in 1..(i - 1) : Stripped[j] # "{"
BalancedAt(j) ==
    /\ j > FirstOpen
    /\ Stripped[j] = "}"
    /\ Cardinality({k \in FirstOpen..j : Stripped[k] = "{"})
           = Cardinality({k \in FirstOpen..j : Stripped[k] = "}"})
Closers == {j \in 1..Len(Stripped) : BalancedAt(j)}
FirstCloser == CHOOSE j \in Closers : \A k \in Closers : j <= k
C16_BestEffortExtraction ==
    (extracted.called /\ \E i \in 1..Len(text) : text[i] = "{") =>
        IF Closers = {}
        THEN extracted.fallback /\ extracted.jsonStr = <<>>
        ELSE /\ extracted.jsonStr = SubSeq(Stripped, FirstOpen, FirstCloser)
             /\ extracted.parsed = jsonParse(SubSeq(Stripped, FirstOpen, FirstCloser))
C16_Witness ==
    /\ extracted.called
    /\ text = <<"t", "m", "{", "w", "}">>
    /\ extracted.jsonStr = <<"{", "w", "}">>
    /\ extracted.parsed.valid
    /\ extracted.parsed.worthy = JTrue

\* C17: dry-run mode. With dryRunMode on, a notify call on a conversation
\* object that is not notified and a worthy Insight returns the dry-run
\* result; no call posts a message, sets notified or creates a Notification
\* Record; and a call on a notified conversation object still returns
\* already_notified.
C17_DryRun ==
    dryRunMode =>
        /\ posts = 0
        /\ notifiedTransitions = 0
        /\ notificationRecords = (IF conv.notified THEN 1 ELSE 0)
        /\ \A h \in Handlers :
               handlers[h].kind = "notify" =>
                   /\ handlers[h].pc = "done"
                   /\ ~handlers[h].posted /\ ~handlers[h].marked /\ ~handlers[h].recorded
                   /\ handlers[h].result =
                          (IF handlers[h].conversation.notified THEN "already_notified"
                           ELSE IF ~handlers[h].worthy THEN "not_post_worthy"
                           ELSE "dry_run")
C17_Witness ==
    /\ dryRunMode
    /\ ~conv.notified
    /\ notificationRecords = 0
    /\ \E h \in Handlers :
           /\ handlers[h].kind = "notify"
           /\ handlers[h].worthy
           /\ ~handlers[h].conversation.notified
           /\ handlers[h].result = "dry_run"

\* C18: mark and record as one unit. When no notify call is in progress, the
\* Conversation is notified exactly when a Notification Record of type
\* insight_detected exists for it.
NotifyInProgress == \E h \in Handlers : handlers[h].pc \in {"post", "mark", "record"}
C18_MarkAndRecordUnit ==
    ~NotifyInProgress => (conv.notified <=> notificationRecords >= 1)

\* C19: at most one Notification Record of type insight_detected is created
\* for the Conversation, however the handlers interleave.
C19_OneRecord == notificationRecords <= 1

\* C20: NOTIFIED is terminal. Once the Conversation is notified it stays
\* notified, and no notify call goes on to deliver a message for it.
StartsDelivery(h) == handlers[h].pc # "post" /\ handlers'[h].pc = "post"
C20_NotifiedTerminal ==
    [][conv.notified =>
          /\ conv'.notified
          /\ \A h \in Handlers : ~StartsDelivery(h)]_vars

\* C21: gate_passed_at is write-once. Once it is set, no later event changes
\* it, whether the gate passes again or not and whether the handlers of the
\* Conversation overlap or not.
C21_GatePassedAtWriteOnce ==
    [][ingRow.gate_passed_at # 0 => ingRow'.gate_passed_at = ingRow.gate_passed_at]_vars

\* C22: cooldown. Two insight-analysis calls for the Conversation are never
\* started less than cooldownMinutes apart, however the handlers interleave.
StartsAnalysis(h) == handlers[h].pc # "det_llm" /\ handlers'[h].pc = "det_llm"
C22_Cooldown ==
    [][\A h \in Handlers :
          (StartsAnalysis(h) /\ lastDetectStart # 0) =>
              now - lastDetectStart >= cooldownMinutes * MinuteMs]_vars

\* C23: successful compression. When compressConversation runs on a pending
\* buffer that is not empty and compressSummary succeeds, the stored rolling
\* summary is the summary the client returned, summary_version is one more
\* than before the call, and the step that ends the call leaves the pending
\* buffer empty.
CompressionStored(kind) == cmpCall.kind = kind /\ cmpCall.pc \in {"update", "done"}
C23_SuccessfulCompression ==
    /\ [](CompressionStored("generative") =>
              /\ cmpRow.rolling_summary = mergedSummary(cmpCall.response)
              /\ cmpRow.summary_version = cmpCall.before.summary_version + 1
              /\ cmpCall.result \in {"none", "updated"})
    /\ [][(cmpCall.pc = "update" /\ cmpCall'.pc = "done") => cmpPending' = NoLines]_vars
C23_Witness ==
    /\ cmpCall.kind = "generative"
    /\ cmpCall.pc = "done"
    /\ cmpCall.result = "updated"
    /\ cmpCall.before.summary_version = FirstSummaryVersion + 1
    /\ cmpRow.summary_version = FirstSummaryVersion + 2
    /\ cmpPending = NoLines

\* C24: compression fallback. When compressSummary fails, emergencyCompress
\* runs: the stored summary is the summary that was stored followed by the
\* last KeepLines lines of more than 50 characters of the pending buffer, in
\* order; summary_version is one more than before; the pending buffer is
\* cleared; and the call returns the updated row, it does not throw.
LongIds(buffer) == {buffer.lines[i].id : i \in {j \in 1..Len(buffer.lines) : buffer.lines[j].long}}
IsSuffix(t, s) == Len(t) <= Len(s) /\ t = SubSeq(s, Len(s) - Len(t) + 1, Len(s))
Ascending(t) == \A i \in 1..(Len(t) - 1) : t[i] < t[i + 1]
C24_CompressionFallback ==
    /\ [](CompressionStored("emergency") /\ cmpCall.result # "null" =>
              /\ cmpRow.rolling_summary.generated = cmpCall.before.rolling_summary.generated
              /\ cmpRow.rolling_summary.lines =
                     cmpCall.before.rolling_summary.lines \o cmpCall.truncated
              /\ cmpRow.summary_version = cmpCall.before.summary_version + 1
              /\ cmpCall.result \in {"none", "updated"})
    /\ [][(cmpCall.pc = "llm" /\ cmpCall'.pc = "emg_get") =>
              LET kept == cmpCall'.truncated
                  long == LongIds(cmpPending)
              IN /\ Ascending(kept)
                 /\ {kept[i] : i \in 1..Len(kept)} \subseteq long
                 /\ Len(kept) = Min(KeepLines, Cardinality(long))
                 /\ \A i \in long : \A k \in 1..Len(kept) :
                        i > kept[k] => \E j \in 1..Len(kept) : kept[j] = i]_vars
    /\ [][(cmpCall.pc = "update" /\ cmpCall'.pc = "done") => cmpPending' = NoLines]_vars
C24_Witness ==
    /\ cmpCall.kind = "emergency"
    /\ cmpCall.pc = "done"
    /\ cmpCall.result = "updated"
    /\ cmpCall.before.rolling_summary.generated > 0
    /\ Len(cmpCall.truncated) = KeepLines
    /\ cmpCall.truncated[1] = 3
    /\ cmpPending = NoLines

\* C29: bounded rolling summary. After any sequence of compressions,
\* generative or emergency, the stored rolling summary has at most
\* maxSummaryWords words.
C29_BoundedSummary == SummaryWords(cmpRow.rolling_summary) <= maxSummaryWords

\* C25: bot events are ignored. The handler of an event flagged as a bot's
\* leaves the buffer window, the silence timer, the Conversation row and the
\* pending compression buffer as they are at each of its steps, no timer is
\* armed for it and no batch is closed because of it.
BotProc(r, sent) == r.kind = "ingest" /\ r.ev # 0 /\ sent[r.ev]
C25_BotIgnored ==
    /\ [][\A p \in Procs :
              (procs'[p] # procs[p] /\ (BotProc(procs[p], arrivals) \/ BotProc(procs'[p], arrivals')))
              => /\ UNCHANGED <<redisBuf, localBuffers, silenceTimers, timers, lastTrigger>>
                 /\ procs'[p].pc \in {"done", "idle"}]_vars
    /\ [][\A m \in Ingesters :
              (ingCalls'[m] # ingCalls[m] /\ (ingCalls[m].isBot \/ ingCalls'[m].isBot))
              => /\ UNCHANGED <<ingRow, ingPending>>
                 /\ ingCalls'[m].pc \in {"done", "idle"}]_vars
    /\ [](/\ \A h \in 1..Len(timers) : ~arrivals[timers[h].ev]
          /\ \A i \in 1..Len(WindowOf(getBuffer)) : ~arrivals[WindowOf(getBuffer)[i]]
          /\ lastTrigger.ev # 0 => ~arrivals[lastTrigger.ev])
C25_Witness ==
    /\ \E p \in Procs : BotProc(procs[p], arrivals) /\ procs[p].pc = "done"
    /\ silenceTimers # 0
    /\ timers[silenceTimers].state = "pending"
    /\ Len(WindowOf(getBuffer)) = maxBatchSize - 1

\* C26: storage failure degrades to the local map. When the redis.get of a
\* handler fails, the window it works on is the one localBuffers holds; when
\* its redis.set or redis.del fails, the window or the deletion goes to
\* localBuffers once the failure is known, and a command that succeeds
\* writes Redis; the ingest still appends its event to the window it read,
\* then arms the silence timer for it or closes the batch on the volume
\* trigger, and returns.
FellBack(ok, reply) == IF ok THEN reply ELSE ValueOf(localBuffers)
C26_StoreFallback ==
    [][\A p \in Procs : procs'[p] # procs[p] =>
          /\ procs[p].pc = "pm_get"
             => /\ procs'[p].pc = "pm_save"
                /\ procs'[p].got = FellBack(procs[p].redisOk, procs[p].got)
                /\ procs'[p].buffer = Append(WindowOf(procs'[p].got), procs[p].ev)
                /\ procs'[p].redisOk => redisBuf' = StoredBuffer(procs'[p].buffer)
          /\ procs[p].pc = "pm_save"
             => /\ ~procs[p].redisOk
                       => ValueOf(localBuffers') = StoredBuffer(procs[p].live)
                /\ IF Len(procs[p].live) >= maxBatchSize
                   THEN /\ procs'[p].pc = "pb_get"
                        /\ procs'[p].trigger = "max_cap"
                        /\ silenceTimers' = 0
                   ELSE /\ procs'[p].pc = "done"
                        /\ procs'[p].result = "null"
                        /\ silenceTimers' = Len(timers')
                        /\ timers'[silenceTimers'] =
                               [left |-> silenceTimeoutMs, state |-> "pending",
                                ev |-> procs[p].ev]
          /\ (procs[p].pc = "pb_get" /\ procs'[p].pc = "pb_close")
             => /\ procs'[p].batch = WindowOf(FellBack(procs[p].redisOk, procs[p].got))
                /\ procs'[p].redisOk
                       => redisBuf' = IF procs[p].trigger = "max_cap"
                                      THEN StoredBuffer(JsSlice(procs'[p].batch, -overlapSize))
                                      ELSE NoBuffer
          /\ (procs[p].pc = "pb_close" /\ ~procs[p].redisOk)
             => ValueOf(localBuffers') =
                    IF procs[p].trigger = "max_cap"
                    THEN StoredBuffer(JsSlice(procs[p].batch, -overlapSize))
                    ELSE NoBuffer]_vars
C26_Witness ==
    \E p \in Procs :
        /\ procs[p].pc = "done"
        /\ procs[p].kind = "ingest"
        /\ ~procs[p].redisOk
        /\ procs[p].result = "null"
        /\ redisBuf = NoBuffer
        /\ ValueOf(localBuffers) = StoredBuffer(procs[p].buffer)
        /\ Len(procs[p].buffer) = 2
        /\ silenceTimers # 0

\* C27: shutdown cancels the silence timers. Once a SIGTERM or SIGINT handler
\* has started, no silence timer is pending, none fires and no pipeline run
\* (processBatch, runAIPipeline) starts.
PipelineRuns == {p \in Procs : procs[p].pc \in {"pb_get", "pb_close", "scout"}}
C27_ShutdownCancels ==
    /\ [](shutdownPc # "running" =>
              \A h \in 1..Len(timers) : timers[h].state # "pending")
    /\ [][shutdownPc # "running" =>
              /\ \A h \in 1..Len(timers) :
                     ~(timers[h].state = "pending" /\ timers'[h].state = "fired")
              /\ \A p \in Procs : procs[p].pc = "idle" => procs'[p].pc # "pb_get"]_vars

\* C28: daily limit with lazy reset. No day (midnight to midnight) holds more
\* than maxRequestsPerDay granted calls; the reset time is the midnight that
\* follows the last check (an attempt() or a getStats()) and the counter is
\* the number of calls granted in the day that ends there, so the first
\* check at or after the reset time started the count from 0; and a call
\* refused while the minute window has room, that is for the daily limit,
\* carries as retry-after the time left until that midnight, which is
\* positive.
DayOf(t) == t \div DayMs
GrantedInDay(d) == {i \in 1..Len(granted) : DayOf(granted[i][1]) = d}
GrantedInMinuteBefore(t) ==
    {i \in 1..Len(granted) : granted[i][1] > t - OneMinuteMs}
RefusedForDailyLimit ==
    /\ lastAttempt.status = "RateLimitError"
    /\ Cardinality(GrantedInMinuteBefore(lastAttempt.at)) < maxRequestsPerMinute
C28_DailyLimit ==
    /\ \A i \in 1..Len(granted) :
           Cardinality(GrantedInDay(DayOf(granted[i][1]))) <= maxRequestsPerDay
    /\ dailyCount = Cardinality(GrantedInDay(DayOf(dailyResetTime) - 1))
    /\ dailyResetTime <= (DayOf(now) + 1) * DayMs
    /\ lastAttempt.status # "none" => lastAttempt.at < dailyResetTime
    /\ RefusedForDailyLimit =>
           /\ Cardinality(GrantedInDay(DayOf(lastAttempt.at))) = maxRequestsPerDay
           /\ lastAttempt.retryAfterMs = (DayOf(lastAttempt.at) + 1) * DayMs - lastAttempt.at
           /\ lastAttempt.retryAfterMs > 0
C28_Witness ==
    /\ RefusedForDailyLimit
    /\ dailyCount = maxRequestsPerDay
    /\ lastAttempt.retryAfterMs = TickMs

\* C30: pipeline ordering. A notification is attempted only by a run that
\* has persisted its records: on the legacy path the Insight row, in the
\* analyzer the conversation/insight/post chain. A run whose insert failed
\* ends there, without a post.
C30_PersistBeforeNotify ==
    /\ [](\A h \in Handlers :
              (handlers[h].pc = "post" \/ handlers[h].posted) => handlers[h].insight)
    /\ [][\A h \in Handlers :
              (handlers[h].pc = "det_insight" /\ ~handlers[h].insight)
              => (handlers'[h] = handlers[h]
                  \/ (handlers'[h].pc = "done" /\ handlers'[h].result = "error"
                      /\ posts' = posts))]_vars
    /\ [](\A p \in Procs :
              (procs[p].pc \in {"post", "log"} \/ procs[p].posted) => procs[p].persisted)
    /\ [][\A p \in Procs :
              (procs[p].pc = "chain" /\ procs'[p] # procs[p] /\ ~procs'[p].persisted)
              => (procs'[p].pc = "done" /\ procs'[p].result = "null")]_vars
C30_Witness ==
    \E h, g \in Handlers :
        /\ handlers[h].posted /\ handlers[h].insight
        /\ handlers[g].pc = "done" /\ handlers[g].result = "error"
        /\ handlers[g].worthy /\ ~handlers[g].insight

\* C31: non-atomic window update. The save of a processMessage call writes the
\* window its own getBuffer returned plus its own event, whatever was saved
\* in between; so when two calls for the key overlap, the second save
\* replaces the first and the stored window holds only one of the two events.
C31_LostUpdate ==
    [][\A p \in Procs :
          (procs[p].pc = "pm_get" /\ procs'[p].pc = "pm_save") =>
              getBuffer' = StoredBuffer(Append(WindowOf(procs[p].got), procs[p].ev))]_vars
C31_Witness ==
    /\ nextEvent = 2
    /\ Ingested = 2
    /\ stats.batchesProcessed = 0
    /\ \A p \in Procs : procs[p].kind = "ingest" /\ procs[p].pc \in {"pm_save", "done"}
    /\ procs[1].ev # procs[2].ev
    /\ Len(WindowOf(getBuffer)) = 1

\* C32: admission before analysis. A detectInsight call is at or past the
\* Gemini call only if, on the row it read at its start, insight detection is
\* enabled, the conversation is not notified, SignalGate passes and the
\* summary has at least 50 characters; a call refused by these guards has
\* made no Gemini call and stored no Insight.
C32_AdmissionBeforeAnalysis ==
    \A h \in Handlers :
        /\ handlers[h].pc \in {"det_llm", "det_insight", "det_update"} =>
               /\ enableInsightDetection
               /\ ~handlers[h].conversation.notified
               /\ handlers[h].gate
               /\ handlers[h].conversation.rolling_summary >= MinSummaryLen
        /\ handlers[h].result = "no_insight" =>
               /\ ~handlers[h].insight
               /\ ~handlers[h].worthy
C32_Witness ==
    \E h, g \in Handlers :
        /\ handlers[h].pc = "det_insight"
        /\ handlers[h].insight
        /\ handlers[h].gate
        /\ handlers[g].result = "no_insight"
        /\ handlers[g].gate

\* C33: delivery precedes recording. A notify call has issued markAsNotified
\* or written its Notification Record only after its channel post succeeded;
\* a call whose post failed ends with the error, having marked and recorded
\* nothing, and while no post has succeeded the notified flag has made no
\* transition and no Notification Record has been added.
C33_DeliveryPrecedesRecording ==
    /\ \A h \in Handlers :
           /\ (handlers[h].pc \in {"mark", "record"} \/ handlers[h].marked
                   \/ handlers[h].recorded) => handlers[h].posted
           /\ handlers[h].marked => conv.notified
    /\ notifiedTransitions <= posts
    /\ posts = 0 =>
           /\ notifiedTransitions = 0
           /\ notificationRecords = (IF conv.notified THEN 1 ELSE 0)
C33_Witness ==
    /\ posts = 0
    /\ ~conv.notified
    /\ notificationRecords = 0
    /\ \E h \in Handlers :
           /\ handlers[h].kind = "notify"
           /\ handlers[h].pc = "done"
           /\ handlers[h].result = "error"
           /\ ~handlers[h].posted

\* C34: after a volume trigger the silence timer of the key is cancelled and
\* that ingest arms none. From the volume trigger of an ingest until the next
\* event is ingested, no silence timer is pending and no silence trigger is
\* running, and once the trigger's handler has returned the stored window is
\* the retained overlap until the Redis key expires, and empty from then on:
\* the overlap events are not submitted again on their own.
VolumeTriggered ==
    \/ \E p \in Procs : procs[p].trigger = "max_cap" /\ procs[p].ev = LastIngest
    \/ lastTrigger.type = "max_cap" /\ lastTrigger.ev = LastIngest
C34_NoTimerAfterVolume ==
    VolumeTriggered =>
        /\ ~TimerPending
        /\ silenceTimers = 0
        /\ \A p \in Procs : procs[p].kind # "timer"
        /\ (AllIdle /\ lastTrigger.type = "max_cap") =>
               \/ WindowOf(getBuffer) = JsSlice(lastTrigger.batch, -overlapSize)
               \/ redisOn /\ ~redisBuf.has /\ idleFor >= bufferTtlMs
C34_Witness ==
    /\ AllIdle
    /\ lastTrigger.type = "max_cap"
    /\ lastTrigger.ev = LastIngest
    /\ CancelledTimers # {}
    /\ Len(WindowOf(getBuffer)) = overlapSize
    /\ stats.volumeTriggers = 1
    /\ stats.silenceTriggers = 0

\* C35: every event is eventually analysed. With ingest calls that do not
\* overlap, a working store and no shutdown, every event in the stored window
\* of the key is eventually in a batch that processBatch hands to the
\* analysis pipeline (by a volume trigger or by the silence trigger).
InWindow(e) == \E i \in 1..Len(WindowOf(getBuffer)) : WindowOf(getBuffer)[i] = e
InBatch(e) == \E i \in 1..Len(lastTrigger.batch) : lastTrigger.batch[i] = e
ClosedWindow(p) ==
    IF procs[p].trigger = "max_cap" THEN JsSlice(procs[p].batch, -overlapSize) ELSE <<>>
StaysClosed ==
    \A p \in Procs :
        ( /\ procs[p].batch # <<>>
          /\ \/ procs[p].pc = "scout"
             \/ procs[p].pc = "done" /\ procs[p].result = "null" ) =>
            WindowOf(getBuffer) = ClosedWindow(p)
NotRetried ==
    lastTrigger' # lastTrigger =>
        \A i \in 1..Len(lastTrigger'.batch) : \A j \in 1..Len(lastTrigger.batch) :
            lastTrigger'.batch[i] = lastTrigger.batch[j] =>
                /\ lastTrigger.type = "max_cap"
                /\ j > Len(lastTrigger.batch) - overlapSize
C36_ClosedNeverRestored == [][StaysClosed' /\ NotRetried]_vars
C36_Witness ==
    /\ stats.batchesProcessed = 2
    /\ stats.insightsFound = 0
    /\ lastTrigger.type = "silence"
    /\ \E p \in Procs :
           /\ procs[p].pc = "done"
           /\ procs[p].result = "null"
           /\ procs[p].scout = "not_worthy"
           /\ procs[p].batch # <<>>
    /\ WindowOf(getBuffer) = <<>>

\* C37: every attempt of makeRequest, retries included, goes through
\* rateLimiter.attempt(). An attempt the limiter admits records one slot and
\* an attempt it refuses records none and ends the request with
\* RateLimitError, not LLMError: a request has consumed as many slots as it
\* has admitted attempts, at most maxRetries, at least one unless its first
\* attempt was refused, and maxRetries when it ends with LLMError.
SlotsConsumed == Len(granted) - req.start
IsAdmitted(outcome) == outcome # "rate"
AdmittedAttempts ==
    Len(SelectSeq(req.outcomes, IsAdmitted)) + (IF req.pc = "model" THEN 1 ELSE 0)
C37_SlotPerAdmittedAttempt ==
    req.pc # "idle" =>
        /\ SlotsConsumed = AdmittedAttempts
        /\ SlotsConsumed <= req.maxRetries
        /\ \A i \in 1..Len(req.outcomes) :
               req.outcomes[i] = "rate" => (i = Len(req.outcomes) /\ req.pc = "done")
        /\ req.pc = "done" =>
               /\ (req.result = "RateLimitError") <=>
                      (req.outcomes[Len(req.outcomes)] = "rate")
               /\ req.result = "LLMError" => SlotsConsumed = req.maxRetries
               /\ req.outcomes[1] # "rate" => SlotsConsumed >= 1
C37_Witness ==
    /\ req.pc = "done"
    /\ req.result = "RateLimitError"
    /\ req.maxRetries = 3
    /\ Len(req.outcomes) = 2
    /\ SlotsConsumed = 1
\* C37 as stated: a finished request has consumed between 1 and maxRetries slots
C37_BetweenOneAndMaxRetries ==
    req.pc = "done" => (SlotsConsumed >= 1 /\ SlotsConsumed <= req.maxRetries)

\* C38 as stated: after a successful generative compression, with a positive
\* cooldown, insight detection is not triggered for the message, however
\* long the update of the compression took to return.
C38_NoDetectionAfterCompression ==
    [][\A h \in Handlers :
          ( /\ handlers[h].pc = "cmp_update"
            /\ handlers[h].cmpAt # 0
            /\ cooldownMinutes > 0 ) =>
              /\ handlers[h].conversation.llm_last_called_at = handlers[h].cmpAt
              /\ handlers'[h].pc \in {"cmp_update", "done"}
              /\ handlers'[h].pc = "done" => handlers'[h].result = "no_detection"]_vars
\* C38: compression and insight detection share one cooldown timestamp. A
\* successful generative compression writes llm_last_called_at, so when
\* handleMessage tests the row that compressConversation returned, with a
\* positive cooldown that has not elapsed since that write, insight detection
\* is not triggered for the message.
C38_CompressionStartsCooldown ==
    [][\A h \in Handlers :
          ( /\ handlers[h].pc = "cmp_update"
            /\ handlers[h].cmpAt # 0
            /\ cooldownMinutes > 0
            /\ now - handlers[h].cmpAt < cooldownMinutes * MinuteMs ) =>
              /\ handlers[h].conversation.llm_last_called_at = handlers[h].cmpAt
              /\ handlers'[h].pc \in {"cmp_update", "done"}
              /\ handlers'[h].pc = "done" => handlers'[h].result = "no_detection"]_vars
C38_Witness ==
    \E h \in Handlers :
        /\ handlers[h].pc = "done"
        /\ handlers[h].result = "no_detection"
        /\ handlers[h].cmpAt # 0
        /\ handlers[h].gate
        /\ ~handlers[h].conversation.notified
        /\ conv.rolling_summary >= MinSummaryLen
        /\ conv.llm_last_called_at = handlers[h].cmpAt

\* C39: no pending text is dropped by compression. When clearBuffer removes
\* the pending buffer at the end of a compression, every line it removes was
\* in the buffer when its text was given to that compression (to
\* compressSummary, or to emergencyCompress after a failure), a line added
\* while the call was in flight included.
C39_NoPendingTextDropped ==
    [][(cmpCall.pc = "update" /\ cmpCall'.pc = "done") =>
           Len(cmpPending.lines) <= cmpCall.given]_vars

\* C6: when maxBatchSize events have been ingested in rapid succession (no
\* quiet period between them, their handlers possibly overlapping) and every
\* handler has returned, the volume trigger has fired exactly once and the
\* stored window is the last overlapSize of those events.
C6_VolumeTriggerOnce ==
    ( /\ AllIdle
      /\ Ingested = maxBatchSize
      /\ \A h \in 1..Len(timers) : timers[h].state # "fired" ) =>
        /\ stats.volumeTriggers = 1
        /\ LET w == WindowOf(getBuffer)
               all == SelectSeq([i \in 1..Len(arrivals) |-> i], IsIngest)
           IN /\ Len(w) = Min(overlapSize, maxBatchSize)
              /\ \A i \in 1..Len(w) : w[i] = all[Len(all) - Len(w) + i]

\* C9: notifier idempotency. A notify call handed a conversation whose
\* notified flag is already true returns already_notified: it posts no
\* message, does not call markAsNotified and creates no Notification Record.
C9_NotifierIdempotent ==
    \A h \in Handlers :
        (handlers[h].kind = "notify" /\ handlers[h].conversation.notified) =>
            /\ handlers[h].pc = "done"
            /\ handlers[h].result = "already_notified"
            /\ ~handlers[h].posted
            /\ ~handlers[h].marked
            /\ ~handlers[h].recorded
C9_Witness ==
    /\ posts = 1
    /\ conv.notified
    /\ \E h \in Handlers :
           /\ handlers[h].kind = "notify"
           /\ handlers[h].conversation.notified
           /\ handlers[h].result = "already_notified"

\* C10: two-phase ordering. In every pipeline run the Author is called, a post
\* persisted and a notification sent only after the Scout returned worthy for
\* that window; after a not-worthy (or failed) Scout the run makes no Author
\* call, persists nothing and notifies nobody.
C10_TwoPhaseOrdering ==
    \A p \in Procs :
        /\ ( \/ procs[p].pc \in {"author", "chain", "post", "log"}
             \/ procs[p].author # "none"
             \/ procs[p].persisted
             \/ procs[p].posted ) => procs[p].scout = "worthy"
        /\ procs[p].scout = "not_worthy" =>
               /\ procs[p].pc = "done"
               /\ procs[p].result = "null"
        /\ procs[p].persisted => procs[p].author = "post"
        /\ procs[p].posted => procs[p].persisted
C10_Witness ==
    \E p \in Procs :
        /\ procs[p].pc = "done"
        /\ procs[p].batch # <<>>
        /\ procs[p].scout = "not_worthy"
        /\ stats.insightsFound >= 1
        /\ stats.batchesProcessed >= 2

\* C7: Rate limiter boundedness. Over any sequence of attempt() calls from any
\* callers, no 60-second interval [t, t + 60000 ms) holds more than
\* maxRequestsPerMinute granted calls, a call made while the window is full
\* is refused, and every refusal carries a retry-after greater than zero.
C7_RateLimiterBounded ==
    /\ \A i \in 1..Len(granted) :
           Cardinality(GrantedInMinuteFrom(i)) <= maxRequestsPerMinute
    /\ lastAttempt.status = "RateLimitError" => lastAttempt.retryAfterMs > 0
    /\ lastAttempt.status = "ok" =>
           Cardinality({j \in 1..Len(granted) :
                            granted[j][1] > lastAttempt.at - OneMinuteMs})
               <= maxRequestsPerMinute

\* C7 witness: the per-minute window is full of calls of two different
\* callers and the latest attempt, inside that minute, was refused.
C7_Witness ==
    /\ lastAttempt.status = "RateLimitError"
    /\ Len(requestTimestamps) = maxRequestsPerMinute
    /\ lastAttempt.at < requestTimestamps[1] + OneMinuteMs
    /\ dailyCount < maxRequestsPerDay
    /\ \E i, j \in 1..Len(granted) : granted[i][2] # granted[j][2]

\* C8: Confidence threshold enforcement. Every worthiness result the client
\* returns with a confidence below the configured threshold is not worthy,
\* whatever the model claimed; for the scout, which returns no confidence,
\* the confidence the model sent is the one that counts.
C8_ConfidenceThresholdEnforced ==
    /\ insightResult.confidence < confidenceThreshold => ~insightResult.worthy
    /\ postIdeaResult.confidence < confidenceThreshold => ~postIdeaResult.worthy
    /\ (response.confidence.t = "number" /\ response.confidence.n < confidenceThreshold)
           => ~scoutResult.worthy

====
